---- MODULE Spec2Model ----
(***************************************************************************)
(* A state-machine model of jankins: the TTL response cache (cache.py),    *)
(* the token-bucket rate limiter (middleware/ratelimit.py) and the tool    *)
(* registry and dispatcher of the MCP protocol core (mcp/protocol.py).     *)
(* Each component has its own specification (SpecCache, SpecRate, ...);    *)
(* the variables of the other components stay at their initial values.     *)
(***************************************************************************)
EXTENDS Integers, Sequences, FiniteSets, TLC

VARIABLES
    now,          \* the wall clock, time.time(), in ticks
    \* ---- ResponseCache (cache.py) ----
    max_entries,  \* ResponseCache.max_entries
    ttl,          \* ResponseCache.ttl, in ticks
    cache,        \* ResponseCache._cache: key -> CacheEntry
    order,        \* insertion order of the keys of _cache (a Python dict is ordered)
    lock,         \* ResponseCache._lock: 0 when free, else the thread holding it
    hits,         \* ResponseCache._hits
    misses,       \* ResponseCache._misses
    cpc,          \* per thread: where it stands inside a cache method
    cret,         \* the last call that returned: method, key, value returned, key it removed
    written,      \* history: per stored key, the time and value of the set that stored it
    \* ---- RateLimiter (middleware/ratelimit.py) ----
    burst,        \* RateLimiter.burst, the capacity of every bucket, in tokens
    buckets,      \* RateLimiter.buckets: identifier -> RateLimitBucket
    last_cleanup, \* RateLimiter.last_cleanup
    rpc,          \* per caller: where it stands inside check_rate_limit
    rret,         \* per caller: what its last check_rate_limit returned, with the token
                  \* count its test saw and the count it left
    calls,        \* history: per identifier, the calls returned since its bucket was made
    \* ---- MCPServer (mcp/protocol.py) ----
    tools,        \* MCPServer.tools: name -> Tool
    toolOrder,    \* insertion order of the keys of tools (a Python dict is ordered)
    prompts,      \* MCPServer.prompts: name -> Prompt
    promptOrder,  \* insertion order of the keys of prompts
    pret,         \* the get_prompt whose outcome its caller has not taken yet
    sent,         \* the response handle_jsonrpc or a transport has produced and not
                  \* yet handed over: what came in, how the handler behaved, what
                  \* goes out
    \* ---- ProgressiveLogClient (jenkins/progressive.py) ----
    log,          \* the console log Jenkins holds for the build, as text
    chunk,        \* the LogChunk the last get_log_chunk returned, with the
                  \* max_bytes it was given and what Jenkins answered
    fetches,      \* the number of get_log_chunk calls made
    got,          \* history: the texts of the chunks returned so far, joined
    \* ---- retry_flaky_build_handler (tools/advanced.py) ----
    fpc,          \* where the handler stands
    max_retries,  \* args.get("max_retries", 3)
    delay_seconds, \* args.get("delay_seconds", 5)
    attempt,      \* the loop variable
    retries,      \* the list of recorded attempts
    success,      \* the success flag
    asyncio_bound, \* whether the `import asyncio` inside the try block has run
    report,       \* the result the handler returns
    triggered,    \* history: the number of build_job calls made
    sleeps,       \* history: the delays slept, in order
    \* ---- MetricsCollector (metrics.py) ----
    mlock,        \* MetricsCollector._lock: 0 when free, else the thread holding it
    durations,    \* MetricsCollector._durations
    total_requests, \* MetricsSummary.total_requests
    failed_requests, \* MetricsSummary.failed_requests
    mstack,       \* per thread: the calls of collector methods it is inside,
                  \* the innermost last
    mret,         \* what the last call that returned to its thread's code returned
    \* ---- cached_tool (cache.py) ----
    wpc,          \* the call of the wrapper under way: tool, args, cache key
    last,         \* history: the last call of the wrapper that ended
    \* ---- run_stdio_server (mcp/stdio_transport.py) ----
    stdin,        \* the lines sys.stdin still holds, the next to be read first
    stdout,       \* the responses printed on sys.stdout, in order
    serving,      \* "running" inside the loop, else how the loop was left
    fed,          \* history: every line stdin held when the server started
    answered,     \* history: per line the loop took up, the line, the response
                  \* built for it and whether write_response printed it
    \* ---- get_pipeline_graph and compare_runs (tools/advanced.py) ----
    gret,         \* the last call of one of the two handlers: the tool, the format,
                  \* what Blue Ocean answered to each REST call, and what the
                  \* handler returned or raised
    \* ---- ProgressiveLogClient.filter_log (jenkins/progressive.py) ----
    filtered,     \* the text given to filter_log, as code points, the number of
                  \* times filter_log was applied, and the results
    \* ---- ProgressiveLogClient.search_log (jenkins/progressive.py) ----
    found,        \* the last search_log call: the text of the chunk searched, the
                  \* pattern, window_lines and the matches returned
    \* ---- TokenAwareFormatter.format_build (formatters/token_aware.py) ----
    build,        \* the build dictionary from Jenkins, as a JSON value
    formatted,    \* per format, whether format_build was called and what it returned
    \* ---- MCPServer (mcp/protocol.py), continued ----
    tret          \* the call_tool whose outcome its caller has not taken yet: name,
                  \* arguments, what the handler does when awaited, and what the
                  \* call returned or raised

cacheVars == <<max_entries, ttl, cache, order, lock, hits, misses, cpc, cret, written>>

rateVars == <<burst, buckets, last_cleanup, rpc, rret, calls>>

protoVars == <<tools, toolOrder, tret>>

promptVars == <<prompts, promptOrder, pret>>

rpcVars == <<sent>>

logVars == <<log, chunk, fetches, got>>

retryVars ==
    <<fpc, max_retries, delay_seconds, attempt, retries, success, asyncio_bound,
      report, triggered, sleeps>>

metricVars == <<mlock, durations, total_requests, failed_requests, mstack, mret>>

wrapVars == <<wpc, last>>

stdioVars == <<stdin, stdout, serving, fed, answered>>

\* the variables of the components modelled after the first nine
graphVars == <<gret>>

filterVars == <<filtered>>

searchVars == <<found>>

formatVars == <<build, formatted>>

restVars == <<stdioVars, graphVars, filterVars, searchVars, formatVars>>

vars ==
    <<now, cacheVars, rateVars, protoVars, promptVars, rpcVars, logVars, retryVars,
      metricVars, wrapVars, restVars>>

None == "None"

-----------------------------------------------------------------------------
(* Bounds of the model *)

MaxTime == 2        \* the clock stops at this tick
MaxTtl == 1         \* ttl is drawn from 0..MaxTtl
MaxLookups == 1     \* at most this many get calls are counted

MaxClock == 3       \* the clock of the rate limiter stops at this tick
MaxBurst == 2       \* burst is drawn from 1..MaxBurst
MaxCalls == 5       \* at most this many check_rate_limit calls are made
OneToken == 2       \* token counts are kept in units of 1/OneToken token, and one
                    \* tick is the time refill_rate takes to add one unit, so that
                    \* 1/refill_rate seconds are OneToken ticks
CleanupInterval == 1 \* RateLimiter.cleanup_interval, in ticks

Threads == {1, 2}
Keys == {"k1", "k2", "k3"}
Values == {"v1", "v2"}

\* max_entries is drawn from 1..MaxCapacity: below the number of keys, so that
\* a set of a new key meets a full cache
MaxCapacity == Cardinality(Keys) - 1

-----------------------------------------------------------------------------
(* The clock *)

Tick ==
    /\ now < MaxTime
    /\ now' = now + 1

RateTick ==
    /\ now < MaxClock
    /\ now' = now + 1

-----------------------------------------------------------------------------
(* ResponseCache *)

Idle == [op |-> "idle", key |-> None, value |-> None, evicted |-> None]

CacheEntry(v, e) == [value |-> v, expires_at |-> e]

\* the keys of seq s other than k, in order
RECURSIVE Without(_, _)
Without(s, k) ==
    IF s = <<>> THEN <<>>
    ELSE IF Head(s) = k THEN Without(Tail(s), k)
    ELSE <<Head(s)>> \o Without(Tail(s), k)

\* dict.pop / del: the map without key k
Remove(c, k) == [j \in (DOMAIN c) \ {k} |-> c[j]]

\* a faulty _evict_oldest: max for min, the entry that expires last goes
OldestKey_newest(c, ord) ==
    LET i == CHOOSE i \in 1..Len(ord) :
                 /\ \A j \in 1..Len(ord) : c[ord[i]].expires_at >= c[ord[j]].expires_at
                 /\ \A j \in 1..(i - 1) : c[ord[j]].expires_at < c[ord[i]].expires_at
    IN  ord[i]

\* min(self._cache.keys(), key=lambda k: self._cache[k].expires_at):
\* the first key, in iteration order, whose expiration is the smallest
OldestKey(c, ord) ==
    LET i == CHOOSE i \in 1..Len(ord) :
                 /\ \A j \in 1..Len(ord) : c[ord[i]].expires_at <= c[ord[j]].expires_at
                 /\ \A j \in 1..(i - 1) : c[ord[j]].expires_at > c[ord[i]].expires_at
    IN  ord[i]

\* `with self._lock:` is entered only when no thread holds the lock
LockFree == lock = 0

\* a faulty size test: > for >=
CacheFull_late(c) == Cardinality(DOMAIN c) > max_entries

\* set's size test: len(self._cache) >= self.max_entries
CacheFull(c) == Cardinality(DOMAIN c) >= max_entries

\* the expiration set stores: time.time() + self.ttl
ExpiresAt(t) == t + ttl

\* a faulty get: the expiration test is missing
Expired_never(e) == FALSE

\* get's expiration test: time.time() > entry.expires_at
Expired(e) == now > e.expires_at

\* a step of the cache leaves the other components alone
OnlyCache ==
    UNCHANGED <<rateVars, protoVars, promptVars, rpcVars, logVars, retryVars,
                metricVars, wrapVars, restVars>>

\* a thread calls a method and enters its `with self._lock:` block
Acquire(t, op, k, v) ==
    /\ OnlyCache
    /\ cpc[t].op = "idle"
    /\ LockFree
    /\ op = "get" => hits + misses < MaxLookups
    /\ lock' = t
    /\ cpc' = [cpc EXCEPT ![t] = [op |-> op, key |-> k, value |-> v, evicted |-> None]]
    /\ UNCHANGED <<now, max_entries, ttl, cache, order, hits, misses, cret, written>>

\* ResponseCache.get, the body under the lock
Get(t) ==
    /\ OnlyCache
    /\ cpc[t].op = "get"
    /\ LET k == cpc[t].key IN
       IF k \notin DOMAIN cache
       THEN /\ misses' = misses + 1
            /\ cret' = [op |-> "get", key |-> k, value |-> None, removed |-> None]
            /\ UNCHANGED <<cache, order, hits, written>>
       ELSE IF Expired(cache[k])
       THEN /\ cache' = Remove(cache, k)
            /\ order' = Without(order, k)
            /\ written' = Remove(written, k)
            /\ misses' = misses + 1
            /\ cret' = [op |-> "get", key |-> k, value |-> None, removed |-> k]
            /\ UNCHANGED hits
       ELSE /\ hits' = hits + 1
            /\ cret' = [op |-> "get", key |-> k, value |-> cache[k].value, removed |-> None]
            /\ UNCHANGED <<cache, order, misses, written>>
    /\ lock' = 0
    /\ cpc' = [cpc EXCEPT ![t] = Idle]
    /\ UNCHANGED <<now, max_entries, ttl>>

\* ResponseCache.set, first half: the size test and _evict_oldest
SetEvict(t) ==
    /\ OnlyCache
    /\ cpc[t].op = "set"
    /\ IF CacheFull(cache) /\ cache # << >>
       THEN LET old == OldestKey(cache, order) IN
            /\ cache' = Remove(cache, old)
            /\ order' = Without(order, old)
            /\ written' = Remove(written, old)
            /\ cpc' = [cpc EXCEPT ![t].op = "set_insert", ![t].evicted = old]
       ELSE /\ cpc' = [cpc EXCEPT ![t].op = "set_insert"]
            /\ UNCHANGED <<cache, order, written>>
    /\ UNCHANGED <<now, max_entries, ttl, lock, hits, misses, cret>>

\* ResponseCache.set, second half: the insertion, then the lock is released
SetInsert(t) ==
    /\ OnlyCache
    /\ cpc[t].op = "set_insert"
    /\ LET k == cpc[t].key
           v == cpc[t].value IN
       /\ cache' = [j \in (DOMAIN cache) \cup {k} |->
                       IF j = k THEN CacheEntry(v, ExpiresAt(now)) ELSE cache[j]]
       /\ order' = IF k \in DOMAIN cache THEN order ELSE Append(order, k)
       /\ written' = [j \in (DOMAIN written) \cup {k} |->
                       IF j = k THEN [t |-> now, v |-> v] ELSE written[j]]
       /\ cret' = [op |-> "set", key |-> k, value |-> None, removed |-> cpc[t].evicted]
    /\ lock' = 0
    /\ cpc' = [cpc EXCEPT ![t] = Idle]
    /\ UNCHANGED <<now, max_entries, ttl, hits, misses>>

\* ResponseCache.delete, the body under the lock
Delete(t) ==
    /\ OnlyCache
    /\ cpc[t].op = "delete"
    /\ LET k == cpc[t].key IN
       /\ cache' = Remove(cache, k)
       /\ order' = Without(order, k)
       /\ written' = Remove(written, k)
       /\ cret' = [op |-> "delete", key |-> k, value |-> None, removed |-> None]
    /\ lock' = 0
    /\ cpc' = [cpc EXCEPT ![t] = Idle]
    /\ UNCHANGED <<now, max_entries, ttl, hits, misses>>

\* ResponseCache.clear, the body under the lock
Clear(t) ==
    /\ OnlyCache
    /\ cpc[t].op = "clear"
    /\ cache' = << >>
    /\ order' = << >>
    /\ written' = << >>
    /\ cret' = [op |-> "clear", key |-> None, value |-> None, removed |-> None]
    /\ lock' = 0
    /\ cpc' = [cpc EXCEPT ![t] = Idle]
    /\ UNCHANGED <<now, max_entries, ttl, hits, misses>>

\* ResponseCache.__init__(ttl, max_entries)
NewCache(n, l) ==
    /\ max_entries = n
    /\ ttl = l
    /\ cache = << >>
    /\ order = << >>
    /\ lock = 0
    /\ hits = 0
    /\ misses = 0
    /\ cpc = [t \in Threads |-> Idle]
    /\ cret = [op |-> "none", key |-> None, value |-> None, removed |-> None]
    /\ written = << >>

-----------------------------------------------------------------------------
(* RateLimiter and RateLimitBucket *)

Callers == {1, 2}
Ids == {"a", "b"}

Min(x, y) == IF x <= y THEN x ELSE y

\* RateLimitBucket.capacity, in units
Capacity == burst * OneToken

Resting == [pc |-> "idle", id |-> None, t0 |-> 0, swept |-> FALSE, seen |-> 0]

\* RateLimitBucket.__post_init__: a full bucket, stamped with the time of its making
NewBucket(t) == [tokens |-> Capacity, last_refill |-> t]

\* a faulty _refill: last_refill is not moved to the clock reading
Refill_stale(b, t) ==
    [tokens |-> Min(Capacity, b.tokens + (t - b.last_refill)), last_refill |-> b.last_refill]

\* RateLimitBucket._refill at clock reading t
Refill(b, t) ==
    [tokens |-> Min(Capacity, b.tokens + (t - b.last_refill)), last_refill |-> t]

\* the sweep's test of one bucket, at clock reading t
Inactive(b, t) ==
    /\ b.tokens >= Capacity
    /\ b.last_refill < t - (CleanupInterval * 2)

\* a faulty lookup: every identifier shares one bucket
BucketKey_shared(id) == "a"

\* self.buckets[identifier]: the key of an identifier's bucket
BucketKey(id) == id

\* a faulty consume: a token is taken from whatever is left
Enough_partial(b) == b.tokens > 0

\* consume(1)'s test: self.tokens >= tokens
Enough(b) == b.tokens >= OneToken

\* a step of the rate limiter leaves the other components alone
OnlyRate ==
    UNCHANGED <<cacheVars, protoVars, promptVars, rpcVars, logVars, retryVars,
                metricVars, wrapVars, restVars>>

\* the number of calls made so far, returned or under way
CallsMade ==
    LET RECURSIVE Sum(_)
        Sum(S) == IF S = {} THEN 0
                  ELSE LET x == CHOOSE x \in S : TRUE
                       IN  Len(calls[x]) + Sum(S \ {x})
    IN  Sum(DOMAIN calls) + Cardinality({c \in Callers : rpc[c].pc # "idle"})

\* a caller enters check_rate_limit(identifier)
RateCall(c, id) ==
    /\ OnlyRate
    /\ rpc[c].pc = "idle"
    /\ CallsMade < MaxCalls
    /\ rpc' = [rpc EXCEPT ![c] = [pc |-> "cleanup", id |-> id, t0 |-> now, swept |-> FALSE, seen |-> 0]]
    /\ UNCHANGED <<now, burst, buckets, last_cleanup, rret, calls>>

\* RateLimiter._cleanup_old_buckets
Cleanup(c) ==
    /\ OnlyRate
    /\ rpc[c].pc = "cleanup"
    /\ IF now - last_cleanup < CleanupInterval
       THEN /\ rpc' = [rpc EXCEPT ![c].pc = "lookup"]
            /\ UNCHANGED <<buckets, last_cleanup, calls>>
       ELSE LET to_remove == {k \in DOMAIN buckets : Inactive(buckets[k], now)} IN
            /\ buckets' = [k \in (DOMAIN buckets) \ to_remove |-> buckets[k]]
            /\ calls' = [k \in (DOMAIN calls) \ to_remove |-> calls[k]]
            /\ last_cleanup' = now
            /\ rpc' = [rpc EXCEPT ![c].pc = "lookup", ![c].swept = TRUE]
    /\ UNCHANGED <<now, burst, rret>>

\* check_rate_limit: get or create the bucket of the identifier
Lookup(c) ==
    /\ OnlyRate
    /\ rpc[c].pc = "lookup"
    /\ LET k == BucketKey(rpc[c].id) IN
       IF k \notin DOMAIN buckets
       THEN /\ buckets' = [j \in (DOMAIN buckets) \cup {k} |->
                              IF j = k THEN NewBucket(now) ELSE buckets[j]]
            /\ calls' = [j \in (DOMAIN calls) \cup {k} |->
                              IF j = k THEN << >> ELSE calls[j]]
       ELSE UNCHANGED <<buckets, calls>>
    /\ rpc' = [rpc EXCEPT ![c].pc = "consume_refill"]
    /\ UNCHANGED <<now, burst, last_cleanup, rret>>

\* RateLimitBucket.consume: the call of _refill
ConsumeRefill(c) ==
    /\ OnlyRate
    /\ rpc[c].pc = "consume_refill"
    /\ LET k == BucketKey(rpc[c].id) IN
       buckets' = [buckets EXCEPT ![k] = Refill(buckets[k], now)]
    /\ rpc' = [rpc EXCEPT ![c].pc = "consume_test"]
    /\ UNCHANGED <<now, burst, last_cleanup, rret, calls>>

\* RateLimitBucket.consume: the test `if self.tokens >= tokens`
ConsumeTest(c) ==
    /\ OnlyRate
    /\ rpc[c].pc = "consume_test"
    /\ LET k == BucketKey(rpc[c].id) IN
       rpc' = [rpc EXCEPT ![c].pc =
                  IF Enough(buckets[k]) THEN "consume_take" ELSE "denied",
                              ![c].seen = buckets[k].tokens]
    /\ UNCHANGED <<now, burst, buckets, last_cleanup, rret, calls>>

\* RateLimitBucket.consume: `self.tokens -= tokens`, and check_rate_limit
\* returns (True, None)
ConsumeTake(c) ==
    /\ OnlyRate
    /\ rpc[c].pc = "consume_take"
    /\ LET k == BucketKey(rpc[c].id) IN
       /\ buckets' = [buckets EXCEPT ![k].tokens = @ - OneToken]
       /\ rret' = [rret EXCEPT ![c] =
                      [id |-> rpc[c].id, allowed |-> TRUE, retry_after |-> None,
                       seen |-> rpc[c].seen, tokens |-> buckets'[k].tokens]]
       /\ calls' = [calls EXCEPT ![k] =
                      Append(@, [t0 |-> rpc[c].t0, t1 |-> now, allowed |-> TRUE])]
    /\ rpc' = [rpc EXCEPT ![c] = Resting]
    /\ UNCHANGED <<now, burst, last_cleanup>>

\* RateLimitBucket.time_until_available(1), which refills once more, and
\* check_rate_limit returns (False, retry_after)
Denied(c) ==
    /\ OnlyRate
    /\ rpc[c].pc = "denied"
    /\ LET k == BucketKey(rpc[c].id)
           b == Refill(buckets[k], now)
           retry_after == IF Enough(b) THEN 0 ELSE OneToken - b.tokens IN
       /\ buckets' = [buckets EXCEPT ![k] = b]
       /\ rret' = [rret EXCEPT ![c] =
                      [id |-> rpc[c].id, allowed |-> FALSE, retry_after |-> retry_after,
                       seen |-> rpc[c].seen, tokens |-> b.tokens]]
       /\ calls' = [calls EXCEPT ![k] =
                      Append(@, [t0 |-> rpc[c].t0, t1 |-> now, allowed |-> FALSE])]
    /\ rpc' = [rpc EXCEPT ![c] = Resting]
    /\ UNCHANGED <<now, burst, last_cleanup>>

\* RateLimiter.__init__(burst)
NewLimiter(n) ==
    /\ burst = n
    /\ buckets = << >>
    /\ last_cleanup = 0
    /\ rpc = [c \in Callers |-> Resting]
    /\ rret = [c \in Callers |-> [id |-> None, allowed |-> TRUE, retry_after |-> None,
                                  seen |-> 0, tokens |-> 0]]
    /\ calls = << >>

-----------------------------------------------------------------------------
(* MCPServer: the tool registry and call_tool *)

ToolNames == {"t1", "t2"}           \* names a tool is registered under
CallNames == ToolNames \cup {"t3"}  \* names call_tool is given
ParamOrder == <<"p", "q", "r">>     \* the parameter names, in declaration order
ParamNames == {ParamOrder[i] : i \in DOMAIN ParamOrder}

\* ErrorCode.INVALID_PARAMS and ErrorCode.INTERNAL_ERROR
INVALID_PARAMS == -32602
INTERNAL_ERROR == -32603
NOT_FOUND == -32003

\* ToolParameter: name and required flag (type and description play no part in
\* dispatch)
ToolParameter(n, req) == [name |-> n, required |-> req]

\* the parameter lists a tool is registered with: every parameter name is
\* left out, optional or required
RECURSIVE ParamList(_, _)
ParamList(f, i) ==
    IF i > Len(ParamOrder) THEN << >>
    ELSE IF f[ParamOrder[i]] = "absent" THEN ParamList(f, i + 1)
    ELSE <<ToolParameter(ParamOrder[i], f[ParamOrder[i]] = "required")>>
             \o ParamList(f, i + 1)

ParamLists ==
    {ParamList(f, 1) : f \in [ParamNames -> {"absent", "optional", "required"}]}

\* Tool: parameters and whether a handler is bound
Tools == [parameters : ParamLists, handler : BOOLEAN]

\* what a handler does when awaited: returns a result, raises a JankinsError
\* subclass, or raises another exception
Outcomes == {"result", "NotFoundError", "Exception"}

Sep == ", "

\* a faulty join: only the first element is written
Join_first(q) == IF q = << >> THEN << >> ELSE <<q[1]>>

\* ', '.join(q), as the sequence of its pieces
RECURSIVE Join(_)
Join(q) ==
    IF q = << >> THEN << >>
    ELSE IF Len(q) = 1 THEN <<q[1]>>
    ELSE <<q[1], Sep>> \o Join(Tail(q))

\* JankinsError._default_hint
DefaultHint(code) ==
    IF code = NOT_FOUND THEN <<"Resource does not exist or path is incorrect">>
    ELSE IF code = INVALID_PARAMS THEN <<"One or more parameters are invalid">>
    ELSE <<"An unexpected error occurred">>

\* JankinsError.docs_url when none is given
DocsUrl == "https://github.com/your-org/jankins#troubleshooting"

\* JankinsError.__init__: `hint or self._default_hint()`, `next_actions or []`,
\* a fresh uuid4 as correlation id, the default docs_url
JankinsError(kind, code, message, hint) ==
    [kind |-> kind, code |-> code, message |-> message,
     hint |-> IF hint = << >> THEN DefaultHint(code) ELSE hint,
     next_actions |-> << >>, correlation_id |-> "uuid4", docs_url |-> DocsUrl]

\* InvalidParamsError(message, hint=hint)
InvalidParamsError(message, hint) ==
    JankinsError("InvalidParamsError", INVALID_PARAMS, message, hint)

\* required_params = [p.name for p in tool.parameters if p.required]
RequiredParams(tool) ==
    LET req == SelectSeq(tool.parameters, LAMBDA x : x.required)
    IN  [i \in DOMAIN req |-> req[i].name]

\* a faulty check: only the first absent parameter is reported
MissingParams_first(required, arguments) ==
    LET miss == SelectSeq(required, LAMBDA x : x \notin arguments)
    IN  IF miss = << >> THEN << >> ELSE <<miss[1]>>

\* a faulty check: no required parameter is ever found absent
MissingParams_none(required, arguments) == << >>

\* missing_params = [p for p in required_params if p not in arguments]
MissingParams(required, arguments) ==
    SelectSeq(required, LAMBDA x : x \notin arguments)

\* NotFoundError(message): the hint defaults to '{resource_type} not found or
\* path is incorrect', resource_type being "Resource"
NotFoundError(message) ==
    JankinsError("NotFoundError", NOT_FOUND, message,
                 <<"Resource", " not found or path is incorrect">>)

\* an exception that is no JankinsError, str(e) being its message
PlainException(message) ==
    [kind |-> "Exception", code |-> None, message |-> message, hint |-> None,
     next_actions |-> None, correlation_id |-> None, docs_url |-> None]

\* the exception a handler raises when it behaves as `outcome`
Raised(outcome) ==
    IF outcome = "NotFoundError" THEN NotFoundError(<<"job not found">>)
    ELSE PlainException(<<"boom">>)

\* the classes derived from JankinsError, and JankinsError itself
JankinsErrors == {"JankinsError", "InvalidParamsError", "NotFoundError"}

\* a faulty clause: the exact class for isinstance
IsJankinsError_exact(e) == e.kind = "JankinsError"

\* `except JankinsError`: the clause takes instances of the class and of its
\* subclasses
IsJankinsError(e) == e.kind \in JankinsErrors

\* `except Exception as e: raise JankinsError(f"... failed: {str(e)}",
\* hint="Check server logs for details")`
Wrapped(prefix, e) ==
    JankinsError("JankinsError", INTERNAL_ERROR, <<prefix>> \o e.message,
                 <<"Check server logs for details">>)

\* call_tool's try block: `return await tool.handler(arguments)` with its two
\* except clauses; invoked counts the times the handler was awaited
Invoke(name, outcome) ==
    IF outcome = "result"
    THEN [status |-> "returned", error |-> None, invoked |-> 1]
    ELSE IF IsJankinsError(Raised(outcome))
    THEN [status |-> "raised", error |-> Raised(outcome), invoked |-> 1]
    ELSE [status |-> "raised", invoked |-> 1,
          error |-> Wrapped("Tool execution failed: ", Raised(outcome))]

\* MCPServer.call_tool(name, arguments), the handler behaving as `outcome`
CallToolResult(name, arguments, outcome) ==
    IF name \notin DOMAIN tools
    THEN [status |-> "raised", invoked |-> 0,
          error |-> InvalidParamsError(<<"Tool '", name, "' not found">>,
                                       <<"Available tools: ">> \o Join(toolOrder))]
    ELSE IF ~tools[name].handler
    THEN [status |-> "raised", invoked |-> 0,
          error |-> InvalidParamsError(<<"Tool '", name, "' has no handler registered">>,
                                       <<"This is a server configuration error">>)]
    ELSE LET required_params == RequiredParams(tools[name])
             missing_params == MissingParams(required_params, arguments) IN
         IF missing_params # << >>
         THEN [status |-> "raised", invoked |-> 0,
               error |-> InvalidParamsError(
                             <<"Missing required parameters: ">> \o Join(missing_params),
                             <<"Tool '", name, "' requires: ">> \o Join(required_params))]
         ELSE Invoke(name, outcome)

\* a step of the protocol core leaves the other components alone
OnlyProto ==
    UNCHANGED <<now, cacheVars, rateVars, promptVars, rpcVars, logVars,
                retryVars, metricVars, wrapVars, restVars>>

NoCall ==
    [name |-> None, arguments |-> {}, outcome |-> None, status |-> "none", error |-> None,
     invoked |-> 0]

\* MCPServer.register_tool(tool): insert or replace by name
RegisterTool(name, tool) ==
    /\ OnlyProto
    /\ tret.status = "none"
    /\ tools' = [n \in (DOMAIN tools) \cup {name} |-> IF n = name THEN tool ELSE tools[n]]
    /\ toolOrder' = IF name \in DOMAIN tools THEN toolOrder ELSE Append(toolOrder, name)
    /\ UNCHANGED tret

\* MCPServer.call_tool(name, arguments)
CallTool(name, arguments, outcome) ==
    /\ OnlyProto
    /\ tret.status = "none"
    /\ LET r == CallToolResult(name, arguments, outcome) IN
       tret' = [name |-> name, arguments |-> arguments, outcome |-> outcome,
                status |-> r.status, error |-> r.error, invoked |-> r.invoked]
    /\ UNCHANGED <<tools, toolOrder>>

\* the caller of call_tool takes what it returned or raised
TakeResult ==
    /\ OnlyProto
    /\ tret.status # "none"
    /\ tret' = NoCall
    /\ UNCHANGED <<tools, toolOrder>>

\* MCPServer.__init__
NewServer ==
    /\ tools = << >>
    /\ toolOrder = << >>
    /\ tret = NoCall

-----------------------------------------------------------------------------
(* MCPServer: the prompt registry and get_prompt *)

PromptNames == {"pr1", "pr2"}             \* names a prompt is registered under
GetNames == PromptNames \cup {"pr3"}      \* names get_prompt is given

\* Prompt: arguments and whether a handler is bound
Prompts ==
    [arguments : {<< >>, <<ToolParameter("p", TRUE)>>}, handler : BOOLEAN]

\* get_prompt's single clause `except Exception as e`: whatever the handler
\* raises is wrapped
PromptFailure(e) == Wrapped("Prompt execution failed: ", e)

\* MCPServer.get_prompt(name, arguments), the handler behaving as `outcome`
GetPromptResult(name, arguments, outcome) ==
    IF name \notin DOMAIN prompts
    THEN [status |-> "raised",
          error |-> InvalidParamsError(<<"Prompt '", name, "' not found">>,
                                       <<"Available prompts: ">> \o Join(promptOrder))]
    ELSE IF ~prompts[name].handler
    THEN [status |-> "raised",
          error |-> InvalidParamsError(<<"Prompt '", name, "' has no handler registered">>,
                                       <<"This is a server configuration error">>)]
    ELSE IF outcome = "result"
    THEN [status |-> "returned", error |-> None]
    ELSE [status |-> "raised", error |-> PromptFailure(Raised(outcome))]

\* a step of the prompt registry leaves the other components alone
OnlyPrompt ==
    UNCHANGED <<now, cacheVars, rateVars, protoVars, rpcVars, logVars,
                retryVars, metricVars, wrapVars, restVars>>

\* MCPServer.register_prompt(prompt): insert or replace by name
RegisterPrompt(name, prompt) ==
    /\ OnlyPrompt
    /\ pret.status = "none"
    /\ prompts' = [n \in (DOMAIN prompts) \cup {name} |->
                       IF n = name THEN prompt ELSE prompts[n]]
    /\ promptOrder' = IF name \in DOMAIN prompts THEN promptOrder
                       ELSE Append(promptOrder, name)
    /\ UNCHANGED pret

\* MCPServer.get_prompt(name, arguments)
GetPrompt(name, arguments, outcome) ==
    /\ OnlyPrompt
    /\ pret.status = "none"
    /\ LET r == GetPromptResult(name, arguments, outcome) IN
       pret' = [name |-> name, arguments |-> arguments, outcome |-> outcome,
                status |-> r.status, error |-> r.error]
    /\ UNCHANGED <<prompts, promptOrder>>

\* the caller of get_prompt takes what it returned or raised
TakePrompt ==
    /\ OnlyPrompt
    /\ pret.status # "none"
    /\ pret' = NoCall
    /\ UNCHANGED <<prompts, promptOrder>>

\* MCPServer.__init__, the prompt registry
NewPrompts ==
    /\ prompts = << >>
    /\ promptOrder = << >>
    /\ pret = NoCall

-----------------------------------------------------------------------------
(* MCPServer.handle_jsonrpc and the two transports *)

\* the methods a request names
Methods == {"initialize", "tools/list", "prompts/list", "tools/call", "prompts/get", "foo"}

\* the ids a request carries
RequestIds == {"id1", "id2"}

\* the params a request carries: objects with a name and, or not, arguments
Params ==
    {[name |-> "t1"], [name |-> "t1", arguments |-> {"p"}], [name |-> "pr1"]}

\* a JSON object with the keys K out of method, params and id
Request(K, m, q, i) ==
    [k \in K |-> IF k = "method" THEN m ELSE IF k = "params" THEN q ELSE i]

Requests ==
    {Request(K, m, q, i) : K \in SUBSET {"method", "params", "id"},
                           m \in Methods, q \in Params, i \in RequestIds}

\* what comes in on a line of stdin or in the body of a POST: text that is no
\* JSON, the text of a JSON array, or the text of a JSON object
Lines ==
    {[kind |-> "malformed", value |-> << >>], [kind |-> "array", value |-> << >>]}
        \cup {[kind |-> "object", value |-> r] : r \in Requests}

\* dict.get(key, default)
DictGet(d, k, default) == IF k \in DOMAIN d THEN d[k] ELSE default

\* the literal codes of the responses built by hand
METHOD_NOT_FOUND == -32601
PARSE_ERROR == -32700
ORIGIN_NOT_ALLOWED == -32000

\* MCPServer.get_capabilities
Capabilities ==
    [capabilities |-> [tools |-> [listChanged |-> FALSE],
                       prompts |-> [listChanged |-> FALSE]],
     serverInfo |-> [name |-> "jankins", version |-> "0.1.0"],
     protocolVersion |-> "2025-06-18"]

\* Tool.to_schema: the name, the properties and the required names (types and
\* descriptions are left out)
ToolSchema(name) ==
    [name |-> name,
     inputSchema |->
         [properties |-> {tools[name].parameters[i].name :
                              i \in DOMAIN tools[name].parameters},
          required |-> RequiredParams(tools[name])]]

\* Prompt.to_schema: the arguments key is there only when there are arguments
PromptSchema(name) ==
    IF prompts[name].arguments = << >>
    THEN [name |-> name]
    ELSE [name |-> name,
          arguments |-> [i \in DOMAIN prompts[name].arguments |->
                            [name |-> prompts[name].arguments[i].name,
                             required |-> prompts[name].arguments[i].required]]]

\* MCPServer.list_tools and MCPServer.list_prompts, in registration order
ListTools == [i \in DOMAIN toolOrder |-> ToolSchema(toolOrder[i])]

ListPrompts == [i \in DOMAIN promptOrder |-> PromptSchema(promptOrder[i])]

\* a faulty routing: prompts/get is not among the asynchronous methods
IsAsync_toolsonly(method) == method \in {"tools/call"}

\* `method in ["tools/call", "prompts/get"]`
IsAsync(method) == method \in {"tools/call", "prompts/get"}

\* MCPServer.handle_jsonrpc(request)
HandleJsonrpc(request) ==
    LET method == DictGet(request, "method", None)
        params == DictGet(request, "params", << >>)
        request_id == DictGet(request, "id", None) IN
    IF method = "initialize"
    THEN [jsonrpc |-> "2.0", id |-> request_id, result |-> Capabilities]
    ELSE IF method = "tools/list"
    THEN [jsonrpc |-> "2.0", id |-> request_id, result |-> [tools |-> ListTools]]
    ELSE IF method = "prompts/list"
    THEN [jsonrpc |-> "2.0", id |-> request_id, result |-> [prompts |-> ListPrompts]]
    ELSE IF IsAsync(method)
    THEN ("_async" :> TRUE) @@ [method |-> method, params |-> params, id |-> request_id]
    ELSE [jsonrpc |-> "2.0", id |-> request_id,
          error |-> [code |-> METHOD_NOT_FOUND,
                     message |-> <<"Method not found: ", method>>,
                     data |-> [hint |->
                         <<"Check MCP protocol documentation for valid methods">>]]]

\* JankinsError.to_dict
ToDict(e) ==
    [code |-> e.code, message |-> e.message,
     data |-> [correlation_id |-> e.correlation_id, hint |-> e.hint,
               next_actions |-> e.next_actions, docs_url |-> e.docs_url]]

\* the transports' completion of a marker: call_tool or get_prompt is awaited
\* and its result, or the JankinsError it raises, becomes the response
Complete(marker, outcome) ==
    LET params == marker.params
        request_id == marker.id
        name == DictGet(params, "name", None)
        arguments == DictGet(params, "arguments", {})
        r == IF marker.method = "tools/call"
             THEN CallToolResult(name, arguments, outcome)
             ELSE GetPromptResult(name, arguments, outcome) IN
    IF r.status = "raised"
    THEN [jsonrpc |-> "2.0", id |-> request_id, error |-> ToDict(r.error)]
    ELSE IF marker.method = "tools/call"
    THEN [jsonrpc |-> "2.0", id |-> request_id, result |-> [content |-> "ok"]]
    ELSE [jsonrpc |-> "2.0", id |-> request_id,
          result |-> [messages |-> <<[role |-> "user"]>>]]

\* the hint of the stdio transport's own error responses: str(e), e being the
\* AttributeError of `request.get` on a list
NoGet == <<"'list' object has no attribute 'get'">>

\* run_stdio_server's response to a line json.loads rejects
StdioParseError ==
    [jsonrpc |-> "2.0",
     error |-> [code |-> PARSE_ERROR, message |-> <<"Parse error: Invalid JSON">>],
     id |-> None]

\* run_stdio_server's handling of one non-empty line: json.loads, then
\* handle_stdio_request. A JSON array makes `request.get` raise in
\* handle_jsonrpc and again in handle_stdio_request's own except clause, so
\* that the loop's except clause answers.
StdioResponse(line, outcome) ==
    IF line.kind = "malformed" THEN StdioParseError
    ELSE IF line.kind = "array"
    THEN [jsonrpc |-> "2.0",
          error |-> [code |-> INTERNAL_ERROR, message |-> <<"Internal error">>,
                     data |-> [hint |-> NoGet]],
          id |-> None]
    ELSE LET response == HandleJsonrpc(line.value) IN
         IF DictGet(response, "_async", FALSE)
         THEN Complete(response, outcome)
         ELSE response

\* handle_mcp_request: the origin test, request.json(), handle_jsonrpc and
\* the completion of a marker, with the HTTP status of the answer
HttpResponse(originAllowed, body, outcome) ==
    IF ~originAllowed
    THEN [status_code |-> 403,
          json |-> [jsonrpc |-> "2.0",
                    error |-> [code |-> ORIGIN_NOT_ALLOWED,
                               message |-> <<"Origin not allowed">>,
                               data |-> [expected |-> "expected", received |-> "origin"]]]]
    ELSE IF body.kind = "malformed"
    THEN [status_code |-> 400,
          json |-> [jsonrpc |-> "2.0",
                    error |-> [code |-> PARSE_ERROR,
                               message |-> <<"Parse error: Invalid JSON">>]]]
    ELSE IF body.kind = "array"
    THEN [status_code |-> 500,
          json |-> [jsonrpc |-> "2.0",
                    error |-> [code |-> INTERNAL_ERROR, message |-> <<"Internal error">>,
                               data |-> [hint |-> <<"Check server logs for details">>]]]]
    ELSE LET response == HandleJsonrpc(body.value) IN
         [status_code |-> 200,
          json |-> IF DictGet(response, "_async", FALSE)
                   THEN Complete(response, outcome)
                   ELSE response]

\* a faulty request handler: the tool registry is emptied
RegistryKept_cleared ==
    /\ tools' = << >>
    /\ toolOrder' = << >>
    /\ UNCHANGED <<prompts, promptOrder>>

\* handle_jsonrpc, get_capabilities, list_tools, list_prompts, call_tool and
\* get_prompt read self.tools and self.prompts and assign to neither
RegistryKept == UNCHANGED <<tools, toolOrder, prompts, promptOrder>>

\* a step of the transports leaves the other components alone
OnlyRpc ==
    /\ RegistryKept
    /\ UNCHANGED <<now, cacheVars, rateVars, tret, pret, logVars, retryVars,
                   metricVars, wrapVars, restVars>>

NothingSent ==
    [via |-> "none", input |-> << >>, outcome |-> None, status_code |-> 0,
     response |-> << >>]

\* MCPServer.handle_jsonrpc(request), called on its own
HandleRequest(request) ==
    /\ OnlyRpc
    /\ sent.via = "none"
    /\ sent' = [via |-> "core", input |-> [kind |-> "object", value |-> request],
                outcome |-> None, status_code |-> 0,
                response |-> HandleJsonrpc(request)]

\* run_stdio_server: one non-empty line is read and answered
StdioLine(line, outcome) ==
    /\ OnlyRpc
    /\ sent.via = "none"
    /\ sent' = [via |-> "stdio", input |-> line, outcome |-> outcome, status_code |-> 0,
                response |-> StdioResponse(line, outcome)]

\* handle_mcp_request: one POST is answered
HttpPost(originAllowed, body, outcome) ==
    /\ OnlyRpc
    /\ sent.via = "none"
    /\ LET r == HttpResponse(originAllowed, body, outcome) IN
       sent' = [via |-> "http", input |-> body, outcome |-> outcome,
                status_code |-> r.status_code, response |-> r.json]

\* write_response, or the return of the JSONResponse: the response leaves
WriteResponse ==
    /\ OnlyRpc
    /\ sent.via # "none"
    /\ sent' = NothingSent

\* nothing has come in yet
NewTransport == sent = NothingSent

-----------------------------------------------------------------------------
(* ProgressiveLogClient.get_log_chunk *)

MaxLogLen == 3      \* the log has at most this many characters
MaxChunk == 3       \* max_bytes is drawn from 0..MaxChunk, or is None
MaxFetches == 3     \* at most this many get_log_chunk calls are made

\* stands for max_bytes = None
Unlimited == -1

\* the characters of a log: a (1 byte in UTF-8), E for e-acute (2 bytes),
\* U for the euro sign (3 bytes)
Chars == {"a", "E", "U"}

Width(ch) == IF ch = "a" THEN 1 ELSE IF ch = "E" THEN 2 ELSE 3

\* the texts of at most n characters
RECURSIVE Texts(_)
Texts(n) ==
    IF n = 0 THEN {<< >>}
    ELSE Texts(n - 1) \cup {Append(t, ch) : t \in {u \in Texts(n - 1) : Len(u) = n - 1},
                                            ch \in Chars}

\* str.encode('utf-8'): every character becomes its bytes, byte k of Width(ch)
RECURSIVE Encode(_)
Encode(text) ==
    IF text = << >> THEN << >>
    ELSE [k \in 1..Width(Head(text)) |-> [ch |-> Head(text), k |-> k]]
             \o Encode(Tail(text))

\* the bytes at the head of b are the whole encoding of one character
WholeChar(b) ==
    /\ b[1].k = 1
    /\ Len(b) >= Width(b[1].ch)
    /\ \A j \in 1..Width(b[1].ch) : b[j] = [ch |-> b[1].ch, k |-> j]

\* bytes.decode('utf-8', errors='ignore'): whole characters are decoded, a
\* byte that starts or continues no whole character is dropped
RECURSIVE Decode(_)
Decode(b) ==
    IF b = << >> THEN << >>
    ELSE IF WholeChar(b)
    THEN <<b[1].ch>> \o Decode(SubSeq(b, Width(b[1].ch) + 1, Len(b)))
    ELSE Decode(Tail(b))

\* get_progressive_text(start): Jenkins answers with the bytes of the log from
\* offset start on, with or without the X-Text-Size header (the size of the
\* log), and with its X-More-Data flag
GetProgressiveText(start, sized, more) ==
    LET content == SubSeq(Encode(log), start + 1, Len(Encode(log))) IN
    [text |-> Decode(content),
     next_start |-> IF sized THEN Len(Encode(log)) ELSE start + Len(content),
     has_more |-> more]

\* `if max_bytes and ...`: None and 0 are false
Truthy(max_bytes) == max_bytes # Unlimited /\ max_bytes # 0

\* ProgressiveLogClient.get_log_chunk(start, max_bytes)
GetLogChunk(start, max_bytes, sized, more) ==
    LET r == GetProgressiveText(start, sized, more)
        cut == Truthy(max_bytes) /\ Len(Encode(r.text)) > max_bytes IN
    [text |-> IF cut THEN Decode(SubSeq(Encode(r.text), 1, max_bytes)) ELSE r.text,
     start |-> start,
     end |-> r.next_start,
     has_more |-> IF cut THEN TRUE ELSE r.has_more,
     max_bytes |-> max_bytes, payload |-> r.text, upstream_more |-> r.has_more]

\* a step of the log client leaves the other components alone
OnlyLog ==
    UNCHANGED <<now, cacheVars, rateVars, protoVars, promptVars, rpcVars,
                retryVars, metricVars, wrapVars, restVars>>

\* a caller reads the log chunk by chunk: the first get_log_chunk starts at
\* offset 0, each following one at the end offset of the chunk before, as long
\* as that chunk says has_more
FetchNext(max_bytes, sized, more) ==
    /\ OnlyLog
    /\ fetches < MaxFetches
    /\ fetches > 0 => chunk.has_more
    /\ LET start == IF fetches = 0 THEN 0 ELSE chunk.end
           c == GetLogChunk(start, max_bytes, sized, more) IN
       /\ chunk' = c
       /\ got' = got \o c.text
    /\ fetches' = fetches + 1
    /\ UNCHANGED log

\* the build's log, no chunk fetched yet
NewLog(text) ==
    /\ log = text
    /\ chunk = [text |-> << >>, start |-> 0, end |-> 0, has_more |-> TRUE,
                max_bytes |-> Unlimited, payload |-> << >>, upstream_more |-> TRUE]
    /\ fetches = 0
    /\ got = << >>

-----------------------------------------------------------------------------
(* retry_flaky_build_handler *)

MaxRetries == 3     \* max_retries is drawn from 0..MaxRetries

\* the delays the handler is given, in seconds
Delays == {1, 5}

\* what Jenkins answers when the build is looked up after the first sleep:
\* get_job_info or get_build_info raises, the job has no lastBuild, or the
\* build has the result given
Lookups == {"raises", "no build", "SUCCESS", "FAILURE", "ABORTED"}

\* a faulty loop: one attempt too many
InRange_extra(a, n) == a <= n + 1

\* `for attempt in range(1, max_retries + 1)`: the loop body runs for attempt a
InRange(a, n) == a <= n

\* a step of the handler leaves the other components alone
OnlyRetry ==
    UNCHANGED <<now, cacheVars, rateVars, protoVars, promptVars, rpcVars,
                logVars, metricVars, wrapVars, restVars>>

\* the handler is called: the arguments are read and the loop is entered
RetryCall(n, d) ==
    /\ OnlyRetry
    /\ fpc = "idle"
    /\ max_retries' = n
    /\ delay_seconds' = d
    /\ attempt' = 1
    /\ retries' = << >>
    /\ success' = FALSE
    /\ fpc' = IF InRange(1, n) THEN "trigger" ELSE "result"
    /\ UNCHANGED <<asyncio_bound, report, triggered, sleeps>>

\* jenkins_adapter.build_job(job_name, parameters) returns or raises; when it
\* raises, the except clause records the attempt
Trigger(raises) ==
    /\ OnlyRetry
    /\ fpc = "trigger"
    /\ triggered' = triggered + 1
    /\ IF raises
       THEN /\ retries' = Append(retries, [attempt |-> attempt, result |-> "error"])
            /\ fpc' = "next"
       ELSE /\ fpc' = "started"
            /\ UNCHANGED retries
    /\ UNCHANGED <<max_retries, delay_seconds, attempt, success, asyncio_bound, report,
                   sleeps>>

\* `import asyncio` and `await asyncio.sleep(delay_seconds)` inside the try block
WaitStart ==
    /\ OnlyRetry
    /\ fpc = "started"
    /\ asyncio_bound' = TRUE
    /\ sleeps' = Append(sleeps, delay_seconds)
    /\ fpc' = "lookup"
    /\ UNCHANGED <<max_retries, delay_seconds, attempt, retries, success, report,
                   triggered>>

\* get_job_info and get_build_info: the attempt is recorded with the result of
\* the last build, and SUCCESS breaks the loop
LookupBuild(answer) ==
    /\ OnlyRetry
    /\ fpc = "lookup"
    /\ IF answer = "raises"
       THEN /\ retries' = Append(retries, [attempt |-> attempt, result |-> "error"])
            /\ fpc' = "next"
            /\ UNCHANGED success
       ELSE IF answer = "no build"
       THEN /\ fpc' = "next"
            /\ UNCHANGED <<retries, success>>
       ELSE /\ retries' = Append(retries, [attempt |-> attempt, result |-> answer])
            /\ success' = (answer = "SUCCESS" \/ success)
            /\ fpc' = IF answer = "SUCCESS" THEN "result" ELSE "next"
    /\ UNCHANGED <<max_retries, delay_seconds, attempt, asyncio_bound, report, triggered,
                   sleeps>>

\* the end of the loop body: `if attempt < max_retries: await
\* asyncio.sleep(delay_seconds)`, where the name asyncio is local to the handler
\* and unbound until the import inside the try block has run, then the next
\* attempt or the end of the loop
NextAttempt ==
    /\ OnlyRetry
    /\ fpc = "next"
    /\ IF attempt < max_retries /\ ~asyncio_bound
       THEN /\ fpc' = "raised"
            /\ UNCHANGED <<attempt, sleeps>>
       ELSE /\ sleeps' = IF attempt < max_retries THEN Append(sleeps, delay_seconds)
                          ELSE sleeps
            /\ attempt' = attempt + 1
            /\ fpc' = IF InRange(attempt + 1, max_retries) THEN "trigger" ELSE "result"
    /\ UNCHANGED <<max_retries, delay_seconds, retries, success, asyncio_bound, report,
                   triggered>>

\* the result is built and returned
Report ==
    /\ OnlyRetry
    /\ fpc = "result"
    /\ report' = [success |-> success, attempts |-> Len(retries),
                  max_retries |-> max_retries]
    /\ fpc' = "returned"
    /\ UNCHANGED <<max_retries, delay_seconds, attempt, retries, success, asyncio_bound,
                   triggered, sleeps>>

\* the handler has not been called
NewRetry ==
    /\ fpc = "idle"
    /\ max_retries = 0
    /\ delay_seconds = 0
    /\ attempt = 0
    /\ retries = << >>
    /\ success = FALSE
    /\ asyncio_bound = FALSE
    /\ report = [success |-> FALSE, attempts |-> 0, max_retries |-> 0]
    /\ triggered = 0
    /\ sleeps = << >>

-----------------------------------------------------------------------------
(* MetricsCollector *)

MaxRecords == 3     \* at most this many record_request calls are made
Window == 2         \* the number of durations kept (1000 in metrics.py), scaled down

\* the durations recorded, in milliseconds
DurationsMs == {10, 20, 30}

\* the methods of the collector that are modelled
Recording == "record_request"
Percentile == "get_percentile"
Summaries == {"get_summary", "export_prometheus"}

\* the percentiles a summary asks for, in order
Asked == <<50, 95, 99>>

\* a call of a method: whether its `with self._lock:` has been entered, its
\* arguments, and the percentiles it has got back so far
Frame(method, p, d, ok) ==
    [method |-> method, held |-> FALSE, p |-> p, d |-> d, ok |-> ok, acc |-> << >>]

\* sorted(q)
RECURSIVE Sorted(_)
Sorted(q) ==
    IF q = << >> THEN << >>
    ELSE LET i == CHOOSE i \in DOMAIN q : \A j \in DOMAIN q : q[i] <= q[j]
         IN  <<q[i]>> \o Sorted(SubSeq(q, 1, i - 1) \o SubSeq(q, i + 1, Len(q)))

\* get_percentile's body: 0 when nothing is recorded, else the element of the
\* sorted durations at index min(int(len * percentile / 100), len - 1)
PercentileOf(q, percentile) ==
    IF q = << >> THEN 0
    ELSE Sorted(q)[Min((Len(q) * percentile) \div 100, Len(q) - 1) + 1]

\* `with self._lock:` on a threading.Lock, which is not reentrant: the block
\* is entered only when no thread, the caller included, holds the lock
CanEnter == mlock = 0

\* a step of the collector leaves the other components alone
OnlyMetrics ==
    UNCHANGED <<now, cacheVars, rateVars, protoVars, promptVars, rpcVars,
                logVars, retryVars, wrapVars, restVars>>

Top(t) == mstack[t][Len(mstack[t])]

\* a thread calls a method of the collector from outside
MetricsCall(t, method, p, d, ok) ==
    /\ OnlyMetrics
    /\ mstack[t] = << >>
    /\ method = Recording => total_requests < MaxRecords
    /\ mstack' = [mstack EXCEPT ![t] = <<Frame(method, p, d, ok)>>]
    /\ UNCHANGED <<mlock, durations, total_requests, failed_requests, mret>>

\* the innermost call of a thread enters its `with self._lock:` block
MetricsEnter(t) ==
    /\ OnlyMetrics
    /\ mstack[t] # << >>
    /\ ~Top(t).held
    /\ CanEnter
    /\ mlock' = t
    /\ mstack' = [mstack EXCEPT ![t][Len(mstack[t])].held = TRUE]
    /\ UNCHANGED <<durations, total_requests, failed_requests, mret>>

\* the innermost call of a thread, inside its block, runs on: record_request
\* and get_percentile run to their end, leave the block and return;
\* get_summary and export_prometheus call get_percentile for the next
\* percentile they need and, having all three, leave the block and return
MetricsRun(t) ==
    /\ OnlyMetrics
    /\ mstack[t] # << >>
    /\ Top(t).held
    /\ LET f == Top(t)
           n == Len(mstack[t])
           below == SubSeq(mstack[t], 1, n - 1) IN
       IF f.method = Recording
       THEN /\ total_requests' = total_requests + 1
            /\ failed_requests' = IF f.ok THEN failed_requests ELSE failed_requests + 1
            /\ durations' = LET q == Append(durations, f.d)
                            IN  IF Len(q) > Window THEN Tail(q) ELSE q
            /\ mlock' = 0
            /\ mstack' = [mstack EXCEPT ![t] = below]
            /\ mret' = [method |-> f.method, value |-> << >>]
       ELSE IF f.method = Percentile
       THEN /\ mlock' = 0
            /\ IF below = << >>
               THEN /\ mstack' = [mstack EXCEPT ![t] = below]
                    /\ mret' = [method |-> f.method,
                                value |-> <<PercentileOf(durations, f.p)>>]
               ELSE /\ mstack' = [mstack EXCEPT ![t] =
                                      [below EXCEPT ![n - 1].acc =
                                          Append(@, PercentileOf(durations, f.p))]]
                    /\ UNCHANGED mret
            /\ UNCHANGED <<durations, total_requests, failed_requests>>
       ELSE IF Len(f.acc) < Len(Asked)
       THEN /\ mstack' = [mstack EXCEPT ![t] =
                              Append(@, Frame(Percentile, Asked[Len(f.acc) + 1], 0, TRUE))]
            /\ UNCHANGED <<mlock, durations, total_requests, failed_requests, mret>>
       ELSE /\ mlock' = 0
            /\ mstack' = [mstack EXCEPT ![t] = below]
            /\ mret' = [method |-> f.method, value |-> f.acc]
            /\ UNCHANGED <<durations, total_requests, failed_requests>>

\* MetricsCollector.__init__
NewCollector ==
    /\ mlock = 0
    /\ durations = << >>
    /\ total_requests = 0
    /\ failed_requests = 0
    /\ mstack = [t \in Threads |-> << >>]
    /\ mret = [method |-> "none", value |-> << >>]

-----------------------------------------------------------------------------
(* cached_tool *)

MaxCached == 3      \* at most this many cache.get calls are made by the wrapper

\* the tool names of the wrapped handlers (handler.__name__ without "_handler")
WrappedTools == {"get_job", "list_jobs"}

\* the default of cacheable_tools
CacheableTools ==
    {"get_job", "get_build", "get_job_scm", "get_build_scm", "get_status", "whoami"}

\* the args a wrapped handler is called with
WrappedArgs == {[name |-> "a"], [name |-> "a", format |-> "full"], [name |-> "b"]}

\* what awaiting the handler comes to: a result without an error key, a result
\* with an error key, or an exception
HandlerResults == {[data |-> "v1"], [data |-> "v2"], [error |-> "boom"]}

NoResult == [none |-> TRUE]

\* cache_key_from_args(tool_name, args): the tool name and the args without the
\* excluded key "format" (the digest of their sorted serialization stands for
\* them one to one)
CacheKeyFromArgs(tool_name, args) ==
    <<tool_name, [k \in (DOMAIN args) \ {"format"} |-> args[k]]>>

\* a faulty test: every result is stored
Storable_all(result) == TRUE

\* `"error" not in result`
Storable(result) == "error" \notin DOMAIN result

\* a step of the wrapper leaves the other components alone
OnlyWrap ==
    UNCHANGED <<rateVars, protoVars, promptVars, rpcVars, logVars, retryVars,
                metricVars, restVars>>

NotCalling == [pc |-> "idle", tool |-> None, args |-> << >>, bypass |-> FALSE, t |-> 0]

\* a call of the wrapper that ended
Ended(tool, args, outcome, result, invoked, t, stored_at) ==
    [tool |-> tool, args |-> args, outcome |-> outcome, result |-> result,
     invoked |-> invoked, t |-> t, stored_at |-> stored_at]

NeverCalled == Ended(None, << >>, "none", NoResult, FALSE, 0, 0)

\* wrapper(args) up to its await: a tool that is not cacheable goes straight to
\* its handler; otherwise cache.get(cache_key) either returns the stored
\* result, which the wrapper returns, or counts a miss, purging an expired
\* entry
WrapLookup(tool, args) ==
    /\ OnlyWrap
    /\ wpc.pc = "idle"
    /\ hits + misses < MaxCached
    /\ LET k == CacheKeyFromArgs(tool, args) IN
       IF tool \notin CacheableTools
       THEN /\ wpc' = [pc |-> "await", tool |-> tool, args |-> args, bypass |-> TRUE,
                       t |-> now]
            /\ UNCHANGED <<cache, order, written, hits, misses, last>>
       ELSE IF k \in DOMAIN cache /\ ~Expired(cache[k])
       THEN /\ hits' = hits + 1
            /\ last' = Ended(tool, args, "returned", cache[k].value, FALSE, now,
                             written[k].t)
            /\ UNCHANGED <<cache, order, written, misses, wpc>>
       ELSE /\ misses' = misses + 1
            /\ cache' = Remove(cache, k)
            /\ order' = Without(order, k)
            /\ written' = Remove(written, k)
            /\ wpc' = [pc |-> "await", tool |-> tool, args |-> args, bypass |-> FALSE,
                       t |-> now]
            /\ UNCHANGED <<hits, last>>
    /\ UNCHANGED <<now, max_entries, ttl, lock, cpc, cret>>

\* the await of the handler ends with an exception, which leaves the wrapper
WrapRaise ==
    /\ OnlyWrap
    /\ wpc.pc = "await"
    /\ last' = Ended(wpc.tool, wpc.args, "raised", NoResult, TRUE, wpc.t, 0)
    /\ wpc' = NotCalling
    /\ UNCHANGED <<now, cacheVars>>

\* the await of the handler ends with a result: the wrapper stores it with
\* cache.set(cache_key, result), unless it has an error key or the tool is not
\* cacheable, and returns it
WrapResult(result) ==
    /\ OnlyWrap
    /\ wpc.pc = "await"
    /\ LET k == CacheKeyFromArgs(wpc.tool, wpc.args)
           full == CacheFull(cache) /\ cache # << >>
           old == IF full THEN OldestKey(cache, order) ELSE k
           c1 == IF full THEN Remove(cache, old) ELSE cache
           o1 == IF full THEN Without(order, old) ELSE order
           w1 == IF full THEN Remove(written, old) ELSE written IN
       IF ~wpc.bypass /\ Storable(result)
       THEN /\ cache' = [j \in (DOMAIN c1) \cup {k} |->
                             IF j = k THEN CacheEntry(result, ExpiresAt(now)) ELSE c1[j]]
            /\ order' = IF k \in DOMAIN c1 THEN o1 ELSE Append(o1, k)
            /\ written' = [j \in (DOMAIN w1) \cup {k} |->
                             IF j = k THEN [t |-> now, v |-> result] ELSE w1[j]]
       ELSE UNCHANGED <<cache, order, written>>
    /\ last' = Ended(wpc.tool, wpc.args,
                     IF "error" \in DOMAIN result THEN "error" ELSE "returned",
                     result, TRUE, wpc.t, now)
    /\ wpc' = NotCalling
    /\ UNCHANGED <<now, max_entries, ttl, lock, hits, misses, cpc, cret>>

\* no handler is wrapped yet
NewWrapper ==
    /\ wpc = NotCalling
    /\ last = NeverCalled

-----------------------------------------------------------------------------
(* run_stdio_server *)

MaxLines == 2       \* stdin holds at most this many lines

\* the JSON objects that come in on stdin
StdinRequests ==
    {[method |-> "initialize", id |-> "id1"],
     [method |-> "tools/call", params |-> [name |-> "t1", arguments |-> {"p"}],
      id |-> "id2"],
     [method |-> "foo"]}

\* the lines stdin holds: a line that is empty once stripped, text that is no
\* JSON, the text of a JSON array, or the text of a JSON object
StdinLines ==
    {[kind |-> "blank", value |-> << >>], [kind |-> "malformed", value |-> << >>],
     [kind |-> "array", value |-> << >>]}
        \cup {[kind |-> "object", value |-> r] : r \in StdinRequests}

\* the sequences of at most n lines
RECURSIVE Inputs(_)
Inputs(n) ==
    IF n = 0 THEN {<< >>}
    ELSE Inputs(n - 1) \cup
         {Append(q, l) : q \in {x \in Inputs(n - 1) : Len(x) = n - 1}, l \in StdinLines}

\* a faulty loop: a line that is no JSON is passed over like an empty one
Skipped_malformed(line) == line.kind \in {"blank", "malformed"}

\* `line = line.strip()`, `if not line: continue`
Skipped(line) == line.kind = "blank"

\* a step of the stdio server changes the output and nothing else
OnlyStdio ==
    UNCHANGED <<now, cacheVars, rateVars, protoVars, promptVars, rpcVars, logVars,
                retryVars, metricVars, wrapVars, graphVars, filterVars, searchVars,
                formatVars>>

\* one pass of the loop over a line: readline, strip, json.loads,
\* handle_stdio_request and write_response, which prints the response or,
\* when json.dumps or print raises, logs the exception and prints nothing
ReadLine(outcome, printed) ==
    /\ OnlyStdio
    /\ serving = "running"
    /\ stdin # << >>
    /\ LET line == Head(stdin)
           response == StdioResponse(line, outcome) IN
       /\ stdin' = Tail(stdin)
       /\ IF Skipped(line)
          THEN UNCHANGED <<stdout, answered>>
          ELSE /\ stdout' = IF printed THEN Append(stdout, response) ELSE stdout
               /\ answered' = Append(answered, [line |-> line, response |-> response,
                                                printed |-> printed])
    /\ UNCHANGED <<serving, fed>>

\* readline returns '' at the end of input: the loop is left
Eof ==
    /\ OnlyStdio
    /\ serving = "running"
    /\ stdin = << >>
    /\ serving' = "eof"
    /\ UNCHANGED <<stdin, stdout, fed, answered>>

\* KeyboardInterrupt: the loop is left, while readline is awaited (no line is
\* taken) or while a line that was read is being handled (it gets no
\* response)
Interrupt(taken) ==
    /\ OnlyStdio
    /\ serving = "running"
    /\ IF taken
       THEN /\ stdin # << >>
            /\ stdin' = Tail(stdin)
       ELSE UNCHANGED stdin
    /\ serving' = "interrupted"
    /\ UNCHANGED <<stdout, fed, answered>>

\* run_stdio_server is started on an input
NewStdio(lines) ==
    /\ stdin = lines
    /\ stdout = << >>
    /\ serving = "running"
    /\ fed = lines
    /\ answered = << >>

-----------------------------------------------------------------------------
(* BlueOceanClient, get_pipeline_graph_handler and compare_runs_handler *)

\* a node of the Blue Ocean nodes resource, with the keys the client reads
Node(name, result, ms, edges) ==
    [displayName |-> name, result |-> result, durationInMillis |-> ms, edges |-> edges]

\* what adapter.rest_get(.../nodes) followed by response.json() does: it raises
\* (the plugin is absent, the request fails), or it returns a list of nodes, or
\* it returns JSON that is no list of objects
NodeAnswers ==
    {[kind |-> "raises", nodes |-> << >>],
     [kind |-> "garbage", nodes |-> << >>],
     [kind |-> "list", nodes |-> << >>],
     [kind |-> "list", nodes |-> <<Node("build", "SUCCESS", 500, 1)>>],
     [kind |-> "list", nodes |-> <<Node("build", "SUCCESS", 2000, 1),
                                   Node("test", "FAILURE", 500, 1)>>],
     [kind |-> "list", nodes |-> <<Node("build", "SUCCESS", 500, 1),
                                   Node("fan", "SUCCESS", 0, 2)>>]}

\* what the steps resource of a failing node does: it raises, or it returns
\* steps of which none or one has failed
StepAnswers == {"raises", "passing", "failing"}

GraphFormats == {"summary", "full"}
CompareFormats == {"summary", "diff", "full"}

\* the two builds compare_runs reads with get_build_info
BaseBuild == [number |-> 1, result |-> "SUCCESS", duration |-> 3000]
HeadBuild == [number |-> 2, result |-> "FAILURE", duration |-> 2500]

\* BlueOceanClient.get_pipeline_nodes: `except Exception: return []`
GetPipelineNodes(answer) ==
    IF answer.kind = "raises" THEN [kind |-> "list", nodes |-> << >>] ELSE answer

\* stage_info of a node (id, state, start_time and type are left out), the id
\* being the node's place in the list
StageInfo(nodes, i) ==
    [id |-> i, name |-> nodes[i].displayName, result |-> nodes[i].result,
     duration_ms |-> nodes[i].durationInMillis]

RECURSIVE SumDurations(_)
SumDurations(nodes) ==
    IF nodes = << >> THEN 0
    ELSE Head(nodes).durationInMillis + SumDurations(Tail(nodes))

\* the indices 1..n, in order
Indices(n) == [i \in 1..n |-> i]

\* BlueOceanClient.get_pipeline_graph: the graph, or the exception of
\* `node.get` on something that is no object
GetPipelineGraph(answer) ==
    LET fetched == GetPipelineNodes(answer)
        nodes == fetched.nodes
        seq == SelectSeq(Indices(Len(nodes)), LAMBDA i : ~(nodes[i].edges > 1))
        par == SelectSeq(Indices(Len(nodes)), LAMBDA i : nodes[i].edges > 1) IN
    IF fetched.kind \in {"raises", "garbage"}
    THEN [status |-> "raised", graph |-> << >>]
    ELSE IF nodes = << >>
    THEN [status |-> "returned",
          graph |-> [stages |-> << >>, parallel_stages |-> << >>,
                     total_duration_ms |-> 0]]
    ELSE [status |-> "returned",
          graph |-> [stages |-> [k \in DOMAIN seq |-> StageInfo(nodes, seq[k])],
                     parallel_stages |->
                         [k \in DOMAIN par |-> <<StageInfo(nodes, par[k])>>],
                     total_duration_ms |-> SumDurations(nodes),
                     node_count |-> Len(nodes)]]

\* BlueOceanClient.get_node_steps with the failing steps picked out:
\* `except Exception: return []`
FailingSteps(steps) ==
    IF steps = "failing" THEN <<[name |-> "sh", result |-> "FAILURE"]>> ELSE << >>

\* BlueOceanClient.get_failing_stages_detailed
GetFailingStagesDetailed(answer, steps) ==
    LET fetched == GetPipelineNodes(answer)
        nodes == fetched.nodes
        bad == SelectSeq(Indices(Len(nodes)),
                    LAMBDA i : nodes[i].result \in {"FAILURE", "ABORTED", "UNSTABLE"})
        Stage(i) == [name |-> nodes[i].displayName, result |-> nodes[i].result,
                     duration_ms |-> nodes[i].durationInMillis] IN
    IF fetched.kind \in {"raises", "garbage"}
    THEN [status |-> "raised", failing |-> << >>]
    ELSE [status |-> "returned",
          failing |-> [k \in DOMAIN bad |->
                          IF FailingSteps(steps) = << >> THEN Stage(bad[k])
                          ELSE [name |-> nodes[bad[k]].displayName,
                                result |-> nodes[bad[k]].result,
                                duration_ms |-> nodes[bad[k]].durationInMillis,
                                failing_steps |-> FailingSteps(steps)]]]

\* TokenAwareFormatter.add_metadata: the _meta key (correlation id, time and
\* token estimate are left out)
AddMetadata(result, format) == ("_meta" :> [format |-> format]) @@ result

\* get_pipeline_graph_handler for build `number` of job "job", the nodes
\* resource answering `first` to get_pipeline_graph and `second` to
\* get_failing_stages_detailed
GetPipelineGraphHandler(number, format, first, second, steps) ==
    LET g == GetPipelineGraph(first)
        f == GetFailingStagesDetailed(second, steps)
        graph == g.graph
        stages == IF format = "summary"
                  THEN [k \in DOMAIN graph.stages |->
                           [name |-> graph.stages[k].name,
                            result |-> graph.stages[k].result,
                            duration_ms |-> graph.stages[k].duration_ms]]
                  ELSE graph.stages
        parallel == IF format = "summary"
                    THEN [k \in DOMAIN graph.parallel_stages |->
                             <<[name |-> graph.parallel_stages[k][1].name,
                                result |-> graph.parallel_stages[k][1].result]>>]
                    ELSE graph.parallel_stages IN
    IF g.status = "raised" \/ f.status = "raised"
    THEN AddMetadata([build_number |-> number, job_name |-> "job",
                      error |-> "Blue Ocean API not available for this build",
                      stages |-> << >>, available |-> FALSE], format)
    ELSE AddMetadata([build_number |-> number, job_name |-> "job",
                      stages |-> stages, parallel_stages |-> parallel,
                      total_duration_ms |-> graph.total_duration_ms,
                      node_count |-> DictGet(graph, "node_count", 0),
                      failing_stages |-> f.failing], format)

Abs(x) == IF x < 0 THEN -x ELSE x

\* the stage of a graph with the name given, the last of them as in a dict
\* built from the list
StageNamed(graph, name) ==
    LET k == CHOOSE k \in DOMAIN graph.stages :
                 /\ graph.stages[k].name = name
                 /\ \A j \in DOMAIN graph.stages :
                        graph.stages[j].name = name => j <= k
    IN  graph.stages[k]

\* the test of a significant difference: more than a second, or more than a
\* tenth of the base duration
Significant(base_duration, delta) ==
    Abs(delta) > 1000 \/ (base_duration > 0 /\ 10 * Abs(delta) > base_duration)

\* BlueOceanClient.compare_pipeline_runs: the stage_diffs of the comparison
\* (head stages are taken to have distinct names)
ComparePipelineRuns(base, head) ==
    LET b == GetPipelineGraph(base)
        h == GetPipelineGraph(head)
        names == {b.graph.stages[k].name : k \in DOMAIN b.graph.stages}
        hit == SelectSeq(Indices(Len(h.graph.stages)),
                    LAMBDA k : /\ h.graph.stages[k].name \in names
                               /\ Significant(
                                      StageNamed(b.graph, h.graph.stages[k].name).duration_ms,
                                      h.graph.stages[k].duration_ms -
                                      StageNamed(b.graph, h.graph.stages[k].name).duration_ms))
    IN
    IF b.status = "raised" \/ h.status = "raised"
    THEN [status |-> "raised", stage_diffs |-> << >>]
    ELSE [status |-> "returned",
          stage_diffs |->
              [k \in DOMAIN hit |->
                  [stage |-> h.graph.stages[hit[k]].name,
                   base_duration_ms |->
                       StageNamed(b.graph, h.graph.stages[hit[k]].name).duration_ms,
                   head_duration_ms |-> h.graph.stages[hit[k]].duration_ms]]]

\* compare_runs_handler with TokenAwareFormatter.format_comparison (the text
\* format_duration makes of the duration delta is left out)
CompareRunsHandler(format, base, head) ==
    LET c == ComparePipelineRuns(base, head)
        stage_diffs == IF c.status = "raised" THEN << >> ELSE c.stage_diffs
        duration_delta == HeadBuild.duration - BaseBuild.duration
        short == [builds |-> [base |-> BaseBuild.number, head |-> HeadBuild.number],
                  duration_change |-> IF duration_delta < 0 THEN "faster" ELSE "slower",
                  result_changed |-> BaseBuild.result # HeadBuild.result,
                  job_name |-> "job"]
    IN
    IF format \in {"summary", "diff"}
    THEN AddMetadata(IF stage_diffs # << >>
                     THEN ("stage_changes" :> 0) @@ short
                     ELSE short, format)
    ELSE AddMetadata([base_build |-> BaseBuild, head_build |-> HeadBuild,
                      duration_delta |-> duration_delta, stage_diffs |-> stage_diffs,
                      job_name |-> "job"], format)

\* a step of the two handlers changes their own record only
OnlyGraph ==
    UNCHANGED <<now, cacheVars, rateVars, protoVars, promptVars, rpcVars, logVars,
                retryVars, metricVars, wrapVars, stdioVars, filterVars, searchVars,
                formatVars>>

NoGraphCall ==
    [tool |-> "none", format |-> None, answers |-> << >>, steps |-> None,
     result |-> << >>]

\* a call of get_pipeline_graph returns
GetPipelineGraphCall(format, first, second, steps) ==
    /\ OnlyGraph
    /\ gret' = [tool |-> "get_pipeline_graph", format |-> format,
                answers |-> <<first, second>>, steps |-> steps,
                result |-> GetPipelineGraphHandler(7, format, first, second, steps)]

\* a call of compare_runs returns
CompareRunsCall(format, base, head) ==
    /\ OnlyGraph
    /\ gret' = [tool |-> "compare_runs", format |-> format,
                answers |-> <<base, head>>, steps |-> None,
                result |-> CompareRunsHandler(format, base, head)]

\* neither handler has been called
NewGraph == gret = NoGraphCall

-----------------------------------------------------------------------------
(* ProgressiveLogClient.filter_log *)

MaxText == 5        \* a text given to filter_log has at most this many characters

\* the code points of ESC, of the asterisk and of the line feed
ESC == 27
STAR == 42
NL == 10

\* the characters of the texts: ESC, line feed, asterisk, '[' and 'A'
FilterChars == {ESC, NL, STAR, 91, 65}

\* the texts of at most n characters
RECURSIVE FilterTexts(_)
FilterTexts(n) ==
    IF n = 0 THEN {<< >>}
    ELSE FilterTexts(n - 1) \cup
         {Append(t, c) : t \in {x \in FilterTexts(n - 1) : Len(x) = n - 1},
                         c \in FilterChars}

\* '[REDACTED]'
REDACTED == <<91, 82, 69, 68, 65, 67, 84, 69, 68, 93>>

\* the character classes of ANSI_ESCAPE: [@-Z\\-_], [0-?], [ -/] and [@-~]
IsSingle(c) == c \in 64..90 \/ c \in 92..95
IsParam(c) == c \in 48..63
IsIntermediate(c) == c \in 32..47
IsFinal(c) == c \in 64..126

\* the length of the longest run of parameter characters, of intermediate
\* characters and of asterisks that starts at place i
RECURSIVE ParamRun(_, _)
ParamRun(text, i) ==
    IF i <= Len(text) /\ IsParam(text[i]) THEN 1 + ParamRun(text, i + 1) ELSE 0

RECURSIVE IntermediateRun(_, _)
IntermediateRun(text, i) ==
    IF i <= Len(text) /\ IsIntermediate(text[i]) THEN 1 + IntermediateRun(text, i + 1)
    ELSE 0

RECURSIVE StarRun(_, _)
StarRun(text, i) ==
    IF i <= Len(text) /\ text[i] = STAR THEN 1 + StarRun(text, i + 1) ELSE 0

\* the length of the match of ANSI_ESCAPE that starts at place i, 0 when there
\* is none. The three classes of the second alternative are disjoint, so the
\* greedy match is the only one.
AnsiMatch(text, i) ==
    IF i >= Len(text) \/ text[i] # ESC THEN 0
    ELSE IF IsSingle(text[i + 1]) THEN 2
    ELSE IF text[i + 1] = 91
    THEN LET p == ParamRun(text, i + 2)
             q == IntermediateRun(text, i + 2 + p)
             f == i + 2 + p + q IN
         IF f <= Len(text) /\ IsFinal(text[f]) THEN f - i + 1 ELSE 0
    ELSE 0

\* ANSI_ESCAPE.sub('', line): the matches are found from left to right and
\* left out
RECURSIVE StripAnsi(_, _)
StripAnsi(text, i) ==
    IF i > Len(text) THEN << >>
    ELSE IF AnsiMatch(text, i) > 0 THEN StripAnsi(text, i + AnsiMatch(text, i))
    ELSE <<text[i]>> \o StripAnsi(text, i + 1)

\* SECRET_MASK.sub('[REDACTED]', line): every run of four asterisks or more
\* becomes the marker
RECURSIVE MaskSecrets(_, _)
MaskSecrets(text, i) ==
    IF i > Len(text) THEN << >>
    ELSE IF StarRun(text, i) >= 4
    THEN REDACTED \o MaskSecrets(text, i + StarRun(text, i))
    ELSE <<text[i]>> \o MaskSecrets(text, i + 1)

\* text.split('\n')
RECURSIVE SplitLines(_)
SplitLines(text) ==
    IF \A i \in DOMAIN text : text[i] # NL THEN <<text>>
    ELSE LET i == CHOOSE i \in DOMAIN text :
                      text[i] = NL /\ \A j \in 1..(i - 1) : text[j] # NL
         IN  <<SubSeq(text, 1, i - 1)>> \o SplitLines(SubSeq(text, i + 1, Len(text)))

\* '\n'.join(lines)
RECURSIVE JoinLines(_)
JoinLines(lines) ==
    IF lines = << >> THEN << >>
    ELSE IF Len(lines) = 1 THEN lines[1]
    ELSE lines[1] \o <<NL>> \o JoinLines(Tail(lines))

\* filter_log(text, redact=redact), without pattern and levels
FilterLog(text, redact) ==
    LET lines == SplitLines(text)
    IN  JoinLines([k \in DOMAIN lines |->
                      IF redact THEN MaskSecrets(StripAnsi(lines[k], 1), 1)
                      ELSE lines[k]])

\* a step of filter_log changes its own record only
OnlyFilter ==
    UNCHANGED <<now, cacheVars, rateVars, protoVars, promptVars, rpcVars, logVars,
                retryVars, metricVars, wrapVars, stdioVars, graphVars, searchVars,
                formatVars>>

\* filter_log is applied, with redact = True, to the text or to its own result
Redact ==
    /\ OnlyFilter
    /\ filtered.passes < 2
    /\ filtered' = [filtered EXCEPT !.passes = @ + 1,
                                    !.once = IF filtered.passes = 0
                                             THEN FilterLog(filtered.text, TRUE) ELSE @,
                                    !.out = FilterLog(@, TRUE)]

\* a text that has not been filtered
NewFilter(text) == filtered = [text |-> text, passes |-> 0, once |-> text, out |-> text]

-----------------------------------------------------------------------------
(* ProgressiveLogClient.search_log *)

MaxSearch == 5      \* the chunk searched has at most this many characters
MaxWindow == 2      \* window_lines is drawn from 0..MaxWindow

\* the characters of the chunk: line feed, 'e' and 'x'
SearchChars == {NL, 101, 120}

\* the chunks of at most n characters
RECURSIVE SearchTexts(_)
SearchTexts(n) ==
    IF n = 0 THEN {<< >>}
    ELSE SearchTexts(n - 1) \cup
         {Append(t, c) : t \in {x \in SearchTexts(n - 1) : Len(x) = n - 1},
                         c \in SearchChars}

\* the patterns: the regular expression that is the one letter 'e'
SearchPatterns == {101}

\* pattern_re.search(line), for a pattern that is one letter
Matches(pattern, line) == \E j \in DOMAIN line : line[j] = pattern

Max(x, y) == IF x >= y THEN x ELSE y

\* lines[a:b] for 0 <= a and 0 <= b <= len(lines)
Slice(lines, a, b) == SubSeq(lines, a + 1, b)

\* a faulty window: the last line of context is left out
EndLine_short(i, window_lines, n) == Min(n, i + window_lines)

\* end_line = min(len(lines), i + window_lines + 1)
EndLine(i, window_lines, n) == Min(n, i + window_lines + 1)

\* search_log over the text of the chunk get_log_chunk returned: one entry
\* (i + 1, context) for every index i, from 0, of a line that matches
SearchLog(text, pattern, window_lines) ==
    LET lines == SplitLines(text)
        matching == SelectSeq(Indices(Len(lines)), LAMBDA k : Matches(pattern, lines[k]))
        Context(i) ==
            LET start_line == Max(0, i - window_lines)
                end_line == EndLine(i, window_lines, Len(lines))
            IN  JoinLines(Slice(lines, start_line, end_line))
    IN  [k \in DOMAIN matching |-> [n |-> matching[k], context |-> Context(matching[k] - 1)]]

\* a step of search_log changes its own record only
OnlySearch ==
    UNCHANGED <<now, cacheVars, rateVars, protoVars, promptVars, rpcVars, logVars,
                retryVars, metricVars, wrapVars, stdioVars, graphVars, filterVars,
                formatVars>>

\* search_log returns
Search(text, pattern, window_lines) ==
    /\ OnlySearch
    /\ ~found.called
    /\ found' = [called |-> TRUE, text |-> text, pattern |-> pattern,
                 window_lines |-> window_lines,
                 matches |-> SearchLog(text, pattern, window_lines)]

\* search_log has not been called
NewSearch ==
    found = [called |-> FALSE, text |-> << >>, pattern |-> 0, window_lines |-> 0,
             matches |-> << >>]

-----------------------------------------------------------------------------
(* TokenAwareFormatter.format_build *)

\* JSON values: numbers, strings, null, booleans, lists, and objects with
\* their keys in order
JInt(n) == [t |-> "int", n |-> n]
JStr(str) == [t |-> "str", s |-> str]
JNull == [t |-> "null"]
JBool(b) == [t |-> "bool", b |-> b]
JList(items) == [t |-> "list", items |-> items]
JDict(keys, vals) == [t |-> "dict", keys |-> keys, vals |-> vals]

\* len(json.dumps(x)) with the default separators ', ' and ': ', for
\* non-negative integers and strings that need no escape
RECURSIVE Dumped(_)
Dumped(x) ==
    LET RECURSIVE Total(_)
        Total(q) == IF q = << >> THEN 0 ELSE Dumped(Head(q)) + Total(Tail(q))
        RECURSIVE KeyText(_)
        KeyText(q) == IF q = << >> THEN 0 ELSE Len(Head(q)) + 4 + KeyText(Tail(q))
    IN
    IF x.t = "int" THEN Len(ToString(x.n))
    ELSE IF x.t = "str" THEN Len(x.s) + 2
    ELSE IF x.t = "null" THEN 4
    ELSE IF x.t = "bool" THEN (IF x.b THEN 4 ELSE 5)
    ELSE IF x.t = "list"
    THEN 2 + Total(x.items) + 2 * Max(0, Len(x.items) - 1)
    ELSE 2 + KeyText(x.keys) + Total(x.vals) + 2 * Max(0, Len(x.keys) - 1)

\* d.get(key, default) on a JSON object
JGet(d, key, default) ==
    IF \E i \in DOMAIN d.keys : d.keys[i] = key
    THEN d.vals[CHOOSE i \in DOMAIN d.keys : d.keys[i] = key]
    ELSE default

\* format_duration(milliseconds), for durations that are whole tenths of a
\* second
FormatDuration(ms) ==
    IF ms < 1000 THEN ToString(ms) \o "ms"
    ELSE IF ms < 60000
    THEN ToString(ms \div 1000) \o "." \o ToString((ms % 1000) \div 100) \o "s"
    ELSE IF ms < 3600000
    THEN ToString(ms \div 60000) \o "m " \o ToString((ms % 60000) \div 1000) \o "s"
    ELSE ToString(ms \div 3600000) \o "h " \o ToString((ms % 3600000) \div 60000) \o "m"

\* format_timestamp(timestamp_ms): the ISO text of the local time, which has
\* microseconds only when the timestamp is no whole second (the digits are
\* left out)
FormatTimestamp(ms) ==
    IF ms % 1000 = 0 THEN "YYYY-MM-DDTHH:MM:SS" ELSE "YYYY-MM-DDTHH:MM:SS.ffffff"

\* the build dictionaries: number and url are always there, every other key
\* is there or not
BuildOptions ==
    [result : {"absent", "null", "SUCCESS"},
     duration : {-1, 0, 2500, 90000},
     timestamp : {-1, 0},
     building : {"absent", "false", "true"},
     changeSet : {"absent", "empty", "one item"},
     artifacts : {"absent", "empty", "one artifact"},
     actions : {"absent", "many"}]

\* the key and value of an option, when it is there
Field(present, key, val) == IF present THEN <<[k |-> key, v |-> val]>> ELSE << >>

BuildOf(o) ==
    LET fields ==
            Field(o.actions # "absent", "actions",
                  JList(<<JDict(<<"_class">>, <<JStr("hudson.model.CauseAction")>>),
                          JDict(<<"_class">>, <<JStr("hudson.plugins.git.util.BuildData")>>),
                          JDict(<<"_class">>, <<JStr("org.jenkinsci.plugins.workflow.libs.LibrariesAction")>>)>>))
            \o Field(o.artifacts # "absent", "artifacts",
                     JList(IF o.artifacts = "empty" THEN << >>
                           ELSE <<JDict(<<"fileName">>, <<JStr("app.jar")>>)>>))
            \o Field(o.building # "absent", "building", JBool(o.building = "true"))
            \o Field(o.changeSet # "absent", "changeSet",
                     IF o.changeSet = "empty" THEN JDict(<< >>, << >>)
                     ELSE JDict(<<"items">>,
                                <<JList(<<JDict(<<"commitId">>, <<JStr("abc123")>>)>>)>>))
            \o Field(o.duration >= 0, "duration", JInt(o.duration))
            \o <<[k |-> "number", v |-> JInt(42)]>>
            \o Field(o.result # "absent", "result",
                     IF o.result = "null" THEN JNull ELSE JStr(o.result))
            \o Field(o.timestamp >= 0, "timestamp", JInt(o.timestamp))
            \o <<[k |-> "url", v |-> JStr("http://jenkins/job/app/42/")]>>
    IN  JDict([i \in DOMAIN fields |-> fields[i].k], [i \in DOMAIN fields |-> fields[i].v])

Formats == {"ids", "summary", "full"}

\* TokenAwareFormatter.format_build(build, format)
FormatBuild(b, format) ==
    IF format = "ids"
    THEN JDict(<<"number", "url", "result">>,
               <<JGet(b, "number", JNull), JGet(b, "url", JNull),
                 JGet(b, "result", JNull)>>)
    ELSE IF format = "summary"
    THEN JDict(<<"number", "result", "duration", "timestamp", "building", "url",
                 "changes_count", "artifacts_count">>,
               <<JGet(b, "number", JNull),
                 JGet(b, "result", JNull),
                 JStr(FormatDuration(JGet(b, "duration", JInt(0)).n)),
                 JStr(FormatTimestamp(JGet(b, "timestamp", JInt(0)).n)),
                 JGet(b, "building", JBool(FALSE)),
                 JGet(b, "url", JNull),
                 JInt(Len(JGet(JGet(b, "changeSet", JDict(<< >>, << >>)),
                               "items", JList(<< >>)).items)),
                 JInt(Len(JGet(b, "artifacts", JList(<< >>)).items))>>)
    ELSE b

\* a step of format_build changes its own record only
OnlyFormat ==
    UNCHANGED <<now, cacheVars, rateVars, protoVars, promptVars, rpcVars, logVars,
                retryVars, metricVars, wrapVars, stdioVars, graphVars, filterVars,
                searchVars>>

\* format_build(build, format) returns
FormatBuildCall(format) ==
    /\ OnlyFormat
    /\ ~formatted[format].called
    /\ formatted' = [formatted EXCEPT ![format] =
                         [called |-> TRUE, out |-> FormatBuild(build, format)]]
    /\ UNCHANGED build

\* a build that has not been formatted
NewFormat(b) ==
    /\ build = b
    /\ formatted = [f \in Formats |-> [called |-> FALSE, out |-> JNull]]

\* the later components before any of their operations
NewRest ==
    /\ NewStdio(<< >>)
    /\ NewGraph
    /\ NewFilter(<< >>)
    /\ NewSearch
    /\ NewFormat(JDict(<< >>, << >>))

-----------------------------------------------------------------------------
(* Specifications *)

\* the cache alone, called from several threads
InitCache ==
    /\ now = 0
    /\ \E n \in 1..MaxCapacity, l \in 0..MaxTtl : NewCache(n, l)
    /\ NewLimiter(1)
    /\ NewServer
    /\ NewPrompts
    /\ NewTransport
    /\ NewLog(<< >>)
    /\ NewRetry
    /\ NewCollector
    /\ NewWrapper
    /\ NewRest

CacheTick == Tick /\ OnlyCache /\ UNCHANGED cacheVars

NextCache ==
    \/ CacheTick
    \/ \E t \in Threads, k \in Keys : Acquire(t, "get", k, None)
    \/ \E t \in Threads, k \in Keys, v \in Values : Acquire(t, "set", k, v)
    \/ \E t \in Threads, k \in Keys : Acquire(t, "delete", k, None)
    \/ \E t \in Threads : Acquire(t, "clear", None, None)
    \/ \E t \in Threads : Get(t)
    \/ \E t \in Threads : SetEvict(t)
    \/ \E t \in Threads : SetInsert(t)
    \/ \E t \in Threads : Delete(t)
    \/ \E t \in Threads : Clear(t)

SpecCache == InitCache /\ [][NextCache]_vars

\* the rate limiter with one caller at a time, the clock running freely
InitRate ==
    /\ now = 0
    /\ NewCache(1, 0)
    /\ \E n \in 1..MaxBurst : NewLimiter(n)
    /\ NewServer
    /\ NewPrompts
    /\ NewTransport
    /\ NewLog(<< >>)
    /\ NewRetry
    /\ NewCollector
    /\ NewWrapper
    /\ NewRest

RateClock == RateTick /\ OnlyRate /\ UNCHANGED rateVars

NextRate ==
    \/ RateClock
    \/ \E id \in Ids : RateCall(1, id)
    \/ Cleanup(1)
    \/ Lookup(1)
    \/ ConsumeRefill(1)
    \/ ConsumeTest(1)
    \/ ConsumeTake(1)
    \/ Denied(1)

SpecRate == InitRate /\ [][NextRate]_vars

\* the rate limiter called from several threads at one instant
NextRateConc ==
    \/ \E c \in Callers, id \in Ids : RateCall(c, id)
    \/ \E c \in Callers : Cleanup(c)
    \/ \E c \in Callers : Lookup(c)
    \/ \E c \in Callers : ConsumeRefill(c)
    \/ \E c \in Callers : ConsumeTest(c)
    \/ \E c \in Callers : ConsumeTake(c)
    \/ \E c \in Callers : Denied(c)

SpecRateConc == InitRate /\ [][NextRateConc]_vars

\* the protocol core: registrations and tool calls
InitProto ==
    /\ now = 0
    /\ NewCache(1, 0)
    /\ NewLimiter(1)
    /\ NewServer
    /\ NewPrompts
    /\ NewTransport
    /\ NewLog(<< >>)
    /\ NewRetry
    /\ NewCollector
    /\ NewWrapper
    /\ NewRest

NextProto ==
    \/ \E name \in ToolNames, tool \in Tools : RegisterTool(name, tool)
    \/ \E name \in CallNames, arguments \in SUBSET ParamNames, outcome \in Outcomes :
           CallTool(name, arguments, outcome)
    \/ TakeResult

SpecProto == InitProto /\ [][NextProto]_vars

\* the protocol core: prompt registrations and get_prompt calls
NextPrompt ==
    \/ \E name \in PromptNames, prompt \in Prompts : RegisterPrompt(name, prompt)
    \/ \E name \in GetNames, arguments \in SUBSET {"p", "q"}, outcome \in Outcomes :
           GetPrompt(name, arguments, outcome)
    \/ TakePrompt

SpecPrompt == InitProto /\ [][NextPrompt]_vars

\* the tools and prompts registered on the server the transports serve
ServedTools ==
    {[parameters |-> <<ToolParameter("p", TRUE)>>, handler |-> TRUE],
     [parameters |-> << >>, handler |-> FALSE]}

ServedPrompts == {[arguments |-> <<ToolParameter("p", TRUE)>>, handler |-> TRUE]}

\* handle_jsonrpc and the transports, over a registry that is filled while no
\* response is outstanding
NextRpc ==
    \/ \E name \in ToolNames, tool \in ServedTools :
           sent.via = "none" /\ RegisterTool(name, tool)
    \/ \E name \in PromptNames, prompt \in ServedPrompts :
           sent.via = "none" /\ RegisterPrompt(name, prompt)
    \/ \E request \in Requests : HandleRequest(request)
    \/ \E line \in Lines, outcome \in Outcomes : StdioLine(line, outcome)
    \/ \E originAllowed \in BOOLEAN, body \in Lines, outcome \in Outcomes :
           HttpPost(originAllowed, body, outcome)
    \/ WriteResponse

SpecRpc == InitProto /\ [][NextRpc]_vars

\* the stdio server over a registry filled before the first line is read
InitStdio ==
    /\ now = 0
    /\ NewCache(1, 0)
    /\ NewLimiter(1)
    /\ NewServer
    /\ NewPrompts
    /\ NewTransport
    /\ NewLog(<< >>)
    /\ NewRetry
    /\ NewCollector
    /\ NewWrapper
    /\ \E lines \in Inputs(MaxLines) : NewStdio(lines)
    /\ NewGraph
    /\ NewFilter(<< >>)
    /\ NewSearch
    /\ NewFormat(JDict(<< >>, << >>))

NextStdio ==
    \/ \E tool \in ServedTools :
           stdin = fed /\ serving = "running" /\ RegisterTool("t1", tool)
                /\ UNCHANGED stdioVars
    \/ \E outcome \in Outcomes, printed \in BOOLEAN : ReadLine(outcome, printed)
    \/ Eof
    \/ \E taken \in BOOLEAN : Interrupt(taken)

SpecStdio == InitStdio /\ [][NextStdio]_vars

\* the two handlers that read Blue Ocean, called one after the other
NextGraph ==
    \/ \E format \in GraphFormats, first \in NodeAnswers, second \in NodeAnswers,
          steps \in StepAnswers : GetPipelineGraphCall(format, first, second, steps)
    \/ \E format \in CompareFormats, base \in NodeAnswers, head \in NodeAnswers :
           CompareRunsCall(format, base, head)

SpecGraph == InitProto /\ [][NextGraph]_vars

\* filter_log applied to a text and then to its result
InitFilter ==
    /\ now = 0
    /\ NewCache(1, 0)
    /\ NewLimiter(1)
    /\ NewServer
    /\ NewPrompts
    /\ NewTransport
    /\ NewLog(<< >>)
    /\ NewRetry
    /\ NewCollector
    /\ NewWrapper
    /\ NewStdio(<< >>)
    /\ NewGraph
    /\ \E text \in FilterTexts(MaxText) : NewFilter(text)
    /\ NewSearch
    /\ NewFormat(JDict(<< >>, << >>))

NextFilter == Redact

SpecFilter == InitFilter /\ [][NextFilter]_vars

\* search_log called on a chunk
NextSearch ==
    \E text \in SearchTexts(MaxSearch), pattern \in SearchPatterns,
       window_lines \in 0..MaxWindow : Search(text, pattern, window_lines)

SpecSearch == InitProto /\ [][NextSearch]_vars

\* format_build called on one build in each of the three formats
InitFormat ==
    /\ now = 0
    /\ NewCache(1, 0)
    /\ NewLimiter(1)
    /\ NewServer
    /\ NewPrompts
    /\ NewTransport
    /\ NewLog(<< >>)
    /\ NewRetry
    /\ NewCollector
    /\ NewWrapper
    /\ NewStdio(<< >>)
    /\ NewGraph
    /\ NewFilter(<< >>)
    /\ NewSearch
    /\ \E o \in BuildOptions : NewFormat(BuildOf(o))

NextFormat == \E format \in Formats : FormatBuildCall(format)

SpecFormat == InitFormat /\ [][NextFormat]_vars

\* the log client reading the log of a finished build
InitLog ==
    /\ now = 0
    /\ NewCache(1, 0)
    /\ NewLimiter(1)
    /\ NewServer
    /\ NewPrompts
    /\ NewTransport
    /\ \E text \in Texts(MaxLogLen) : NewLog(text)
    /\ NewRetry
    /\ NewCollector
    /\ NewWrapper
    /\ NewRest

NextLog ==
    \E max_bytes \in {Unlimited} \cup (0..MaxChunk), sized \in BOOLEAN, more \in BOOLEAN :
        FetchNext(max_bytes, sized, more)

SpecLog == InitLog /\ [][NextLog]_vars

\* one call of retry_flaky_build; the event loop runs the handler on: a sleep
\* ends, and a call of the adapter returns or raises within its timeout
RetryStep ==
    \/ \E raises \in BOOLEAN : Trigger(raises)
    \/ WaitStart
    \/ \E answer \in Lookups : LookupBuild(answer)
    \/ NextAttempt
    \/ Report

NextRetry ==
    \/ \E n \in 0..MaxRetries, d \in Delays : RetryCall(n, d)
    \/ RetryStep

SpecRetry == InitProto /\ [][NextRetry]_vars /\ WF_vars(RetryStep)

\* the metrics collector called from several threads; a thread inside a
\* method runs on whenever it can
MetricsStep == \E t \in Threads : MetricsEnter(t) \/ MetricsRun(t)

NextMetrics ==
    \/ \E t \in Threads, d \in DurationsMs, ok \in BOOLEAN :
           MetricsCall(t, Recording, 0, d, ok)
    \/ \E t \in Threads, i \in DOMAIN Asked : MetricsCall(t, Percentile, Asked[i], 0, TRUE)
    \/ \E t \in Threads, m \in Summaries : MetricsCall(t, m, 0, 0, TRUE)
    \/ \E t \in Threads : MetricsEnter(t)
    \/ \E t \in Threads : MetricsRun(t)

SpecMetrics == InitProto /\ [][NextMetrics]_vars /\ WF_vars(MetricsStep)

\* handlers wrapped by cached_tool over one cache, called one after the other
\* from the event loop while the clock runs
WrapTick == Tick /\ OnlyWrap /\ UNCHANGED <<cacheVars, wrapVars>>

NextWrap ==
    \/ WrapTick
    \/ \E tool \in WrappedTools, args \in WrappedArgs : WrapLookup(tool, args)
    \/ WrapRaise
    \/ \E result \in HandlerResults : WrapResult(result)

SpecWrap == InitCache /\ [][NextWrap]_vars

-----------------------------------------------------------------------------
(* Properties of ResponseCache *)

Size(c) == Cardinality(DOMAIN c)

\* C1: in every reachable state, also between the steps of set calls that
\* concurrent threads interleave, the cache holds at most max_entries entries.
C1_SizeBounded == Size(cache) <= max_entries

\* a set that evicted has returned, the cache is full, and another thread is
\* inside its critical section
C1_Witness ==
    /\ cret.op = "set"
    /\ cret.removed # None
    /\ Size(cache) = max_entries
    /\ lock # 0

\* C2: a set on a cache holding max_entries entries evicts exactly one entry,
\* one whose expiration is the smallest present, before it inserts; every
\* other entry keeps its value and expiration through the eviction and the
\* insertion.
C2_EvictsNearestExpiration ==
    [][\A t \in Threads :
        /\ (cpc[t].op = "set" /\ cpc'[t].op = "set_insert" /\ Size(cache) = max_entries) =>
              \E old \in DOMAIN cache :
                  /\ \A j \in DOMAIN cache : cache[old].expires_at <= cache[j].expires_at
                  /\ DOMAIN cache' = (DOMAIN cache) \ {old}
                  /\ \A j \in DOMAIN cache' : cache'[j] = cache[j]
        /\ (cpc[t].op = "set_insert" /\ cpc'[t].op = "idle") =>
              /\ DOMAIN cache' = (DOMAIN cache) \cup {cpc[t].key}
              /\ \A j \in (DOMAIN cache) \ {cpc[t].key} : cache'[j] = cache[j]
      ]_vars

\* a set has evicted a key other than its own from a full cache of several
\* entries, the others are still stored, and it is about to insert
C2_Witness ==
    \E t \in Threads :
        /\ cpc[t].op = "set_insert"
        /\ cpc[t].evicted # None
        /\ cpc[t].evicted # cpc[t].key
        /\ cache # << >>
        /\ Size(cache) = max_entries - 1

\* C3: a get of a key stored by set(key, v) at time t, the entry not removed
\* since, returns v and leaves the cache alone when now < t + ttl; when
\* now > t + ttl it returns absent and removes the entry, so that the entry
\* count is one lower.
C3_TtlRoundTrip ==
    [][\A t \in Threads :
        (cpc[t].op = "get" /\ cpc'[t].op = "idle" /\ cpc[t].key \in DOMAIN written) =>
            LET k == cpc[t].key
                w == written[k] IN
            /\ now < w.t + ttl =>
                  /\ cret'.value = w.v
                  /\ cache' = cache
            /\ now > w.t + ttl =>
                  /\ cret'.value = None
                  /\ k \notin DOMAIN cache'
                  /\ Size(cache') = Size(cache) - 1
      ]_vars

\* a get has found its entry expired, purged it and counted a miss
C3_Witness ==
    /\ cret.op = "get"
    /\ cret.removed = cret.key
    /\ cret.value = None
    /\ misses > 0

-----------------------------------------------------------------------------
(* Properties of RateLimiter *)

\* call n of history h began and returned at clock reading T
Instant(h, n, T) == h[n].t0 = T /\ h[n].t1 = T

\* C4: of the calls made for one identifier at the instant T that makes its
\* bucket, the first burst are allowed and the next is denied; when the calls
\* that follow are made OneToken ticks (1/refill_rate seconds) later, the
\* first of them is allowed and the second is denied.
C4_BurstThenOnePerRefill ==
    \A k \in DOMAIN calls :
        LET h == calls[k] IN
        \A n \in 1..Len(h) :
            LET T == h[1].t0 IN
            /\ (n <= burst + 1 /\ \A m \in 1..n : Instant(h, m, T)) =>
                  (h[n].allowed <=> n <= burst)
            /\ ( /\ n \in {burst + 2, burst + 3}
                 /\ \A m \in 1..(burst + 1) : Instant(h, m, T)
                 /\ \A m \in (burst + 2)..n : Instant(h, m, T + OneToken) ) =>
                  (h[n].allowed <=> n = burst + 2)

\* burst + 1 calls at one instant, then two calls OneToken ticks later
C4_Witness ==
    \E k \in DOMAIN calls :
        LET h == calls[k] IN
        /\ Len(h) = burst + 3
        /\ burst > 1
        /\ \A m \in 1..(burst + 1) : Instant(h, m, h[1].t0)
        /\ \A m \in (burst + 2)..(burst + 3) : Instant(h, m, h[1].t0 + OneToken)

\* the number of allowed calls in history h
Admitted(h) == Cardinality({n \in 1..Len(h) : h[n].allowed})

\* C5: with several callers checking at one instant, the calls allowed for an
\* identifier never outnumber the capacity of its bucket, and no token count
\* is below 0.
C5_NoOverAdmission ==
    \A k \in DOMAIN buckets :
        /\ buckets[k].tokens >= 0
        /\ Admitted(calls[k]) <= burst

\* C6: a denied check_rate_limit returns retry_after > 0, equal to
\* (1 - tokens) / refill_rate, and leaves the bucket no fewer tokens than its
\* test saw.
C6_DenialRetryAfter ==
    \A c \in Callers :
        (rret[c].id # None /\ ~rret[c].allowed) =>
            /\ rret[c].retry_after > 0
            /\ rret[c].retry_after = OneToken - rret[c].tokens
            /\ rret[c].tokens >= rret[c].seen

\* the last call for identifier k returned more than twice the cleanup
\* interval before clock reading t
IdleSince(k, t) ==
    /\ calls[k] # << >>
    /\ calls[k][Len(calls[k])].t1 < t - (CleanupInterval * 2)

\* C7: once a sweep has run in a call for another identifier, no bucket is
\* left whose identifier made its last request more than twice the cleanup
\* interval before the sweep and which has had the time to refill to capacity.
C7_IdleBucketsSwept ==
    \A c \in Callers :
        (rpc[c].pc = "lookup" /\ rpc[c].swept) =>
            \A k \in (DOMAIN buckets) \ {rpc[c].id} :
                ~ ( /\ IdleSince(k, last_cleanup)
                    /\ buckets[k].last_refill < last_cleanup - (CleanupInterval * 2)
                    /\ Refill(buckets[k], last_cleanup).tokens >= Capacity )

\* C8: a step of check_rate_limit for one identifier leaves the bucket of every
\* other identifier as it was, and the first call for an identifier is allowed
\* whatever the other identifiers have used.
C8_OtherBucketsUntouched ==
    /\ [](\A k \in DOMAIN calls : Len(calls[k]) >= 1 => calls[k][1].allowed)
    /\ [][\A c \in Callers :
            (rpc[c].pc # "idle" /\ rpc'[c] # rpc[c]) =>
                \A k \in (DOMAIN buckets) \ {rpc[c].id} :
                    k \in DOMAIN buckets' /\ buckets'[k] = buckets[k]
         ]_vars

\* identifier a has been denied and has less than one token left, and the
\* first call for identifier b has just been allowed
C8_Witness ==
    /\ "a" \in DOMAIN calls
    /\ "b" \in DOMAIN calls
    /\ Len(calls["a"]) > burst
    /\ ~calls["a"][Len(calls["a"])].allowed
    /\ buckets["a"].tokens < OneToken
    /\ rret[1].id = "b"
    /\ rret[1].allowed
    /\ Len(calls["b"]) = 1

-----------------------------------------------------------------------------
(* Properties of MCPServer.call_tool *)

\* the pieces of a message or hint
Pieces(q) == {q[i] : i \in DOMAIN q}

\* C9: call_tool of a name that is not registered raises InvalidParamsError,
\* whatever the arguments, and the hint holds every registered tool name.
C9_UnknownToolInvalidParams ==
    (tret.status # "none" /\ tret.name \notin DOMAIN tools) =>
        /\ tret.status = "raised"
        /\ tret.error.kind = "InvalidParamsError"
        /\ tret.error.code = INVALID_PARAMS
        /\ \A n \in DOMAIN tools : n \in Pieces(tret.error.hint)

\* an unregistered name was called with arguments while two tools were registered
C9_Witness ==
    /\ tret.status = "raised"
    /\ tret.name \notin DOMAIN tools
    /\ tret.arguments # {}
    /\ Cardinality(DOMAIN tools) = 2

\* the required parameters of a tool that the arguments lack
Absent(tool, arguments) ==
    {tool.parameters[i].name : i \in {j \in DOMAIN tool.parameters :
        tool.parameters[j].required /\ tool.parameters[j].name \notin arguments}}

\* C10: call_tool of a registered tool with a handler, the arguments lacking at
\* least one required parameter, raises InvalidParamsError, and the message
\* holds every required parameter that is absent.
C10_MissingParamsAllNamed ==
    ( /\ tret.status # "none"
      /\ tret.name \in DOMAIN tools
      /\ tools[tret.name].handler
      /\ Absent(tools[tret.name], tret.arguments) # {} ) =>
        /\ tret.status = "raised"
        /\ tret.error.kind = "InvalidParamsError"
        /\ tret.error.code = INVALID_PARAMS
        /\ \A x \in Absent(tools[tret.name], tret.arguments) :
               x \in Pieces(tret.error.message)

\* a tool with three required parameters was called with one of them
C10_Witness ==
    /\ tret.status = "raised"
    /\ tret.name \in DOMAIN tools
    /\ tools[tret.name].handler
    /\ Len(RequiredParams(tools[tret.name])) = 3
    /\ Cardinality(Absent(tools[tret.name], tret.arguments)) = 2

\* the call reached `await tool.handler(arguments)`
Awaited ==
    /\ tret.status # "none"
    /\ tret.name \in DOMAIN tools
    /\ tools[tret.name].handler
    /\ Absent(tools[tret.name], tret.arguments) = {}

\* C11: when the handler raises a JankinsError or a subclass, call_tool raises
\* that error, every field as the handler raised it; when the handler raises
\* another exception, call_tool raises a JankinsError with code INTERNAL_ERROR
\* whose message holds the message of the exception and whose hint is 'Check
\* server logs for details'.
C11_HandlerErrors ==
    (Awaited /\ tret.outcome # "result") =>
        /\ tret.status = "raised"
        /\ tret.outcome = "NotFoundError" =>
               /\ tret.error = NotFoundError(<<"job not found">>)
               /\ tret.error.kind = "NotFoundError"
               /\ tret.error.code = NOT_FOUND
        /\ tret.outcome = "Exception" =>
               /\ tret.error.kind = "JankinsError"
               /\ tret.error.code = INTERNAL_ERROR
               /\ "boom" \in Pieces(tret.error.message)
               /\ tret.error.hint = <<"Check server logs for details">>

\* a handler raised a NotFoundError and call_tool raised it on
C11_Witness ==
    /\ Awaited
    /\ tret.outcome = "NotFoundError"
    /\ tret.status = "raised"
    /\ tret.error.kind = "NotFoundError"

-----------------------------------------------------------------------------
(* Properties of MCPServer.get_prompt *)

\* the call reached `await prompt.handler(arguments)`
PromptAwaited ==
    /\ pret.status # "none"
    /\ pret.name \in DOMAIN prompts
    /\ prompts[pret.name].handler

\* C12: when a prompt handler raises a JankinsError subclass, get_prompt raises
\* that error with its kind and code, as call_tool does; only another exception
\* comes out as the JankinsError with code INTERNAL_ERROR.
C12_PromptDomainErrors ==
    (PromptAwaited /\ pret.outcome # "result") =>
        /\ pret.status = "raised"
        /\ pret.outcome = "NotFoundError" =>
               /\ pret.error.kind = "NotFoundError"
               /\ pret.error.code = NOT_FOUND
               /\ pret.error = NotFoundError(<<"job not found">>)
        /\ pret.outcome = "Exception" =>
               /\ pret.error.kind = "JankinsError"
               /\ pret.error.code = INTERNAL_ERROR

-----------------------------------------------------------------------------
(* Properties of handle_jsonrpc and the transports *)

\* C13: the response of handle_jsonrpc depends on the method alone: the
\* capabilities for initialize, the listings for tools/list and prompts/list,
\* a marker with the request's method, params and id for tools/call and
\* prompts/get, and for any other method an error with code -32601 whose
\* message holds the method; every response that is no marker has the
\* request's id.
C13_RoutingByMethod ==
    sent.via = "core" =>
        LET request == sent.input.value
            r == sent.response
            m == IF "method" \in DOMAIN request THEN request["method"] ELSE None
            i == IF "id" \in DOMAIN request THEN request["id"] ELSE None IN
        /\ "_async" \notin DOMAIN r => r["id"] = i
        /\ m = "initialize" => r["result"] = Capabilities
        /\ m = "tools/list" => r["result"] = [tools |-> ListTools]
        /\ m = "prompts/list" => r["result"] = [prompts |-> ListPrompts]
        /\ m \in {"tools/call", "prompts/get"} =>
               /\ "_async" \in DOMAIN r /\ r["_async"]
               /\ r["method"] = m
               /\ r["id"] = i
               /\ "params" \in DOMAIN request => r["params"] = request["params"]
        /\ m \notin {"initialize", "tools/list", "prompts/list", "tools/call",
                      "prompts/get"} =>
               /\ "error" \in DOMAIN r
               /\ r["error"].code = -32601
               /\ m \in Pieces(r["error"].message)

\* handle_jsonrpc has returned a marker for prompts/get with params and id
C13_Witness ==
    /\ sent.via = "core"
    /\ "_async" \in DOMAIN sent.response
    /\ sent.response["method"] = "prompts/get"
    /\ sent.response["id"] = "id2"
    /\ sent.response["params"] = [name |-> "pr1"]
    /\ promptOrder # << >>

\* C14: on stdio and on HTTP (the origin accepted), input that is no JSON is
\* answered with an error of code -32700 in a response that has an id key whose
\* value is null.
C14_ParseErrorNullId ==
    ( /\ sent.via \in {"stdio", "http"}
      /\ sent.status_code # 403
      /\ sent.input.kind = "malformed" ) =>
        /\ "error" \in DOMAIN sent.response
        /\ sent.response["error"].code = -32700
        /\ "id" \in DOMAIN sent.response
        /\ sent.response["id"] = None

\* the keys of the data object of an error
ErrorData == {"correlation_id", "hint", "next_actions", "docs_url"}

\* C20: every response with an error that a transport sends (the origin
\* accepted) has in its error a numeric code, a message, and a data object with
\* correlation_id, hint, next_actions and docs_url.
C20_ErrorStructure ==
    ( /\ sent.via \in {"stdio", "http"}
      /\ sent.status_code # 403
      /\ "error" \in DOMAIN sent.response ) =>
        LET e == sent.response["error"] IN
        /\ {"code", "message", "data"} \subseteq DOMAIN e
        /\ e.code \in Int
        /\ ErrorData \subseteq DOMAIN e.data

-----------------------------------------------------------------------------
(* Properties of ProgressiveLogClient.get_log_chunk *)

\* text t is the beginning of text u
IsPrefix(t, u) == Len(t) <= Len(u) /\ SubSeq(u, 1, Len(t)) = t

\* the last get_log_chunk was given a max_bytes that its payload exceeds
Exceeds ==
    /\ fetches > 0
    /\ chunk.max_bytes # Unlimited
    /\ Len(Encode(chunk.payload)) > chunk.max_bytes

\* C15: a chunk cut down to max_bytes has as its end offset its start offset
\* plus the number of bytes it returns, and once a chunk says has_more = false
\* the chunks fetched from offset 0 on make up the whole log.
C15_NextOffsetContinues ==
    /\ (Exceeds /\ chunk.max_bytes > 0) =>
           chunk.end = chunk.start + Len(Encode(chunk.text))
    /\ (fetches > 0 /\ ~chunk.has_more) => got = log

\* C16: when the payload encodes to more than max_bytes bytes, the text
\* returned encodes to at most max_bytes bytes, is a beginning of the payload
\* made of whole characters, and has_more is true; when the payload fits, text
\* and has_more are the payload and the flag of Jenkins.
C16_TruncationSafe ==
    fetches > 0 =>
        /\ Exceeds =>
               /\ Len(Encode(chunk.text)) <= chunk.max_bytes
               /\ IsPrefix(chunk.text, chunk.payload)
               /\ chunk.has_more
        /\ ~Exceeds =>
               /\ chunk.text = chunk.payload
               /\ chunk.has_more = chunk.upstream_more

-----------------------------------------------------------------------------
(* Properties of retry_flaky_build *)

\* C17: a call of retry_flaky_build ends; it makes at most max_retries calls
\* of build_job, makes none after an attempt recorded with the result SUCCESS,
\* sleeps delay_seconds every time it sleeps, and reports a number of attempts
\* that is at most max_retries.
C17_RetryBounded ==
    /\ [](fpc # "idle" =>
             /\ triggered <= max_retries
             /\ \A i \in DOMAIN retries :
                    retries[i].result = "SUCCESS" =>
                        i = Len(retries) /\ fpc \in {"result", "returned"}
             /\ \A i \in DOMAIN sleeps : sleeps[i] = delay_seconds
             /\ fpc = "returned" => report.attempts <= max_retries)
    /\ (fpc # "idle") ~> (fpc \in {"returned", "raised"})

\* the handler has returned after max_retries attempts, the last a SUCCESS
C17_Witness ==
    /\ fpc = "returned"
    /\ max_retries = MaxRetries
    /\ report.attempts = max_retries
    /\ report.success
    /\ Len(sleeps) = 2 * max_retries - 1

-----------------------------------------------------------------------------
(* Properties of MetricsCollector *)

\* thread t is inside get_summary or export_prometheus
InSummary(t) == mstack[t] # << >> /\ mstack[t][1].method \in Summaries

\* C18: a thread inside get_summary or export_prometheus never waits for the
\* lock while holding it itself, and every call of the two returns, the lock
\* left free by it, with the three percentiles of the recorded durations.
C18_SummaryReturns ==
    /\ [](\A t \in Threads : (InSummary(t) /\ ~Top(t).held) => mlock # t)
    /\ \A t \in Threads : InSummary(t) ~> (mstack[t] = << >>)
    /\ [](mret.method \in Summaries =>
             mret.value = [i \in DOMAIN Asked |-> PercentileOf(durations, Asked[i])])

-----------------------------------------------------------------------------
(* Properties of cached_tool *)

\* a step in which a call of the wrapper ends: the cache answers, or the
\* await of the handler ends
CallEnds == hits' = hits + 1 \/ (wpc.pc = "await" /\ wpc'.pc = "idle")

\* a call of the wrapper ends, for the tool and with the args of the call that
\* ended before it
Repeated ==
    /\ CallEnds
    /\ last.outcome # "none"
    /\ last'.tool = last.tool
    /\ last'.args = last.args

\* what the claim says of two such calls: after a result with an error, or an
\* exception, the handler is invoked again; after a result without an error
\* whose entry is younger than the TTL when the second call is made, the
\* stored result is returned and the handler is not invoked
Memoized ==
    /\ last.outcome \in {"error", "raised"} => last'.invoked
    /\ (last.outcome = "returned" /\ last'.t < last.stored_at + ttl) =>
           /\ ~last'.invoked
           /\ last'.outcome = "returned"
           /\ last'.result = last.result

-----------------------------------------------------------------------------
(* Properties of ResponseCache, continued *)

\* C27: get(key) on a stored key returns the stored value only when the
\* current time is strictly less than the entry's expiration timestamp; at
\* now = expires_at and at any later time the lookup returns absent, is
\* counted as a miss, and removes the entry.
C27_StrictExpiry ==
    [][\A t \in Threads :
          (cpc[t].op = "get" /\ cpc'[t].op = "idle" /\ cpc[t].key \in DOMAIN cache) =>
              LET k == cpc[t].key IN
              IF now < cache[k].expires_at
              THEN /\ cret'.value = cache[k].value
                   /\ hits' = hits + 1
              ELSE /\ cret'.value = None
                   /\ misses' = misses + 1
                   /\ k \notin DOMAIN cache']_vars

-----------------------------------------------------------------------------
(* Properties of RateLimiter, continued *)

\* C28: in every reachable state of a rate limiter whose clock readings never
\* decrease, after any sequence of check_rate_limit calls and any amounts of
\* elapsed time, each bucket's token count is between 0 and its capacity.
C28_TokensInRange ==
    \A k \in DOMAIN buckets :
        /\ buckets[k].tokens >= 0
        /\ buckets[k].tokens <= Capacity

\* one bucket has been emptied, and another, from which a token was taken,
\* has been refilled up to its capacity
C28_Witness ==
    \E j, k \in DOMAIN buckets :
        /\ buckets[j].tokens = 0
        /\ buckets[k].tokens = Capacity
        /\ buckets[k].last_refill > 0
        /\ \E i \in 1..Len(calls[k]) : calls[k][i].allowed

-----------------------------------------------------------------------------
(* Properties of retry_flaky_build, continued *)

\* C29: an attempt whose build trigger or status lookup raises is recorded as
\* a failed attempt and the loop goes on; the handler does not raise,
\* whichever attempt fails, the first included, and the result it returns has
\* success = false unless a later attempt was recorded with SUCCESS.
C29_RaisingAttemptRecorded ==
    /\ fpc # "raised"
    /\ fpc = "returned" =>
           (report.success <=> \E i \in DOMAIN retries : retries[i].result = "SUCCESS")

-----------------------------------------------------------------------------
(* Properties of MCPServer.call_tool, continued *)

\* C25: call_tool awaits the tool's handler at most once per call, and only
\* when the three checks have passed in this order: the name is registered, a
\* handler is bound, every required parameter is present. When a check fails
\* the handler is not awaited at all, and the error is that of the first check
\* that fails.
C25_HandlerAfterChecks ==
    tret.status # "none" =>
        /\ tret.invoked <= 1
        /\ tret.invoked = 1 <=> Awaited
        /\ tret.name \notin DOMAIN tools =>
               /\ tret.status = "raised"
               /\ "' not found" \in Pieces(tret.error.message)
        /\ (tret.name \in DOMAIN tools /\ ~tools[tret.name].handler) =>
               /\ tret.status = "raised"
               /\ "' has no handler registered" \in Pieces(tret.error.message)
        /\ (tret.name \in DOMAIN tools /\ tools[tret.name].handler
                /\ Absent(tools[tret.name], tret.arguments) # {}) =>
               /\ tret.status = "raised"
               /\ "Missing required parameters: " \in Pieces(tret.error.message)

\* the handler of a tool with two required parameters or more was awaited
\* once and returned
C25_Witness ==
    /\ tret.status = "returned"
    /\ tret.invoked = 1
    /\ Len(RequiredParams(tools[tret.name])) >= 2

-----------------------------------------------------------------------------
(* Properties of the registry *)

\* C26: no request-handling operation (handle_jsonrpc, list_tools,
\* list_prompts, call_tool, get_prompt, get_capabilities) adds, removes or
\* replaces an entry of the tool or prompt registry, whether it succeeds or
\* fails; the registry changes only in a step of register_tool or
\* register_prompt, which inserts or replaces one entry.
C26_RegistryReadOnly ==
    [][ /\ sent' # sent => UNCHANGED <<tools, toolOrder, prompts, promptOrder>>
        /\ tools' # tools =>
               \E name \in ToolNames :
                   /\ DOMAIN tools' = (DOMAIN tools) \cup {name}
                   /\ \A n \in (DOMAIN tools) \ {name} : tools'[n] = tools[n]
                   /\ UNCHANGED <<prompts, promptOrder>>
        /\ prompts' # prompts =>
               \E name \in PromptNames :
                   /\ DOMAIN prompts' = (DOMAIN prompts) \cup {name}
                   /\ \A n \in (DOMAIN prompts) \ {name} : prompts'[n] = prompts[n]
                   /\ UNCHANGED <<tools, toolOrder>> ]_vars

\* a tools/call that came in on stdin was answered with an error while both
\* registries held entries
C26_Witness ==
    /\ sent.via = "stdio"
    /\ sent.input.kind = "object"
    /\ "method" \in DOMAIN sent.input.value
    /\ sent.input.value.method = "tools/call"
    /\ "error" \in DOMAIN sent.response
    /\ DOMAIN tools # {}
    /\ DOMAIN prompts # {}

-----------------------------------------------------------------------------
(* Properties of run_stdio_server *)

\* the lines the loop has taken from stdin so far
Taken == SubSeq(fed, 1, Len(fed) - Len(stdin))

\* those of them that are not empty once stripped
NonEmpty == SelectSeq(Taken, LAMBDA l : l.kind # "blank")

\* the loop handles the lines one by one, in the order read, builds one
\* response for each line that is not empty, and leaves only at the end of
\* input or on an interrupt
ServedInOrder ==
    /\ serving \in {"running", "eof", "interrupted"}
    /\ serving = "eof" => stdin = << >>
    /\ IF serving = "interrupted"
       THEN Len(answered) \in {Len(NonEmpty) - 1, Len(NonEmpty)}
       ELSE Len(answered) = Len(NonEmpty)
    /\ \A i \in DOMAIN answered : answered[i].line = NonEmpty[i]

-----------------------------------------------------------------------------
(* Properties of get_pipeline_graph and compare_runs *)

\* a REST call to Blue Ocean failed during the last call
UpstreamFailed == \E i \in DOMAIN gret.answers : gret.answers[i].kind = "raises"

\* C21: when the Blue Ocean API is absent or a call to it fails,
\* get_pipeline_graph still returns a result, marked available = false, and
\* compare_runs still returns its comparison, with empty stage differences.
C21_DegradesToUnavailable ==
    /\ (gret.tool = "get_pipeline_graph" /\ UpstreamFailed) =>
           /\ "available" \in DOMAIN gret.result
           /\ gret.result.available = FALSE
    /\ (gret.tool = "compare_runs" /\ UpstreamFailed) =>
           /\ "stage_changes" \notin DOMAIN gret.result
           /\ gret.format = "full" => gret.result.stage_diffs = << >>

-----------------------------------------------------------------------------
(* Properties of filter_log *)

\* C22: for any text, filter_log with redact = true and no pattern or level
\* filter, applied twice, gives the same text as applied once.
C22_RedactionIdempotent == filtered.passes = 2 => filtered.out = filtered.once

-----------------------------------------------------------------------------
(* Properties of search_log *)

\* C24: search_log returns one entry for each line that matches the pattern,
\* in document order, each with the line's number n, counted from 1, and a
\* context made of the lines max(1, n - window_lines) through
\* min(last line, n + window_lines); the windows of nearby matches overlap and
\* are neither merged nor deduplicated.
C24_MatchesWithContext ==
    LET lines == SplitLines(found.text)
        m == found.matches
        w == found.window_lines
        last_line == Len(lines)
        Hit(n) == \E j \in DOMAIN lines[n] : lines[n][j] = found.pattern IN
    found.called =>
        /\ \A k \in DOMAIN m : m[k].n \in 1..last_line /\ Hit(m[k].n)
        /\ \A j, k \in DOMAIN m : j < k => m[j].n < m[k].n
        /\ \A n \in 1..last_line : Hit(n) => \E k \in DOMAIN m : m[k].n = n
        /\ \A k \in DOMAIN m :
               m[k].context =
                   JoinLines(SubSeq(lines,
                                    IF m[k].n - w >= 1 THEN m[k].n - w ELSE 1,
                                    IF m[k].n + w <= last_line THEN m[k].n + w
                                    ELSE last_line))

\* two matching lines next to each other were found with a window that
\* reaches past both ends of the text, so that both contexts hold both lines
C24_Witness ==
    /\ found.called
    /\ found.window_lines >= 1
    /\ Len(found.matches) = 2
    /\ found.matches[2].n = found.matches[1].n + 1
    /\ found.matches[1].context = found.matches[2].context
    /\ Len(SplitLines(found.text)) = 3

-----------------------------------------------------------------------------
(* Properties of format_build *)

\* C23: for every build object, the serialized size of the output of
\* format_build in ids mode is at most that in summary mode, which is at most
\* that in full mode.
C23_SizeOrdering ==
    (\A f \in Formats : formatted[f].called) =>
        /\ Dumped(formatted["ids"].out) <= Dumped(formatted["summary"].out)
        /\ Dumped(formatted["summary"].out) <= Dumped(formatted["full"].out)

====
